---- MODULE Spec2Model ----
(***************************************************************************)
(* multi-git: a command line that runs one git action over every member    *)
(* of a group of repositories.                                              *)
(*                                                                          *)
(* The module holds three state machines, each with its own specification: *)
(*   SpecGroup  Group.<verb>() : Promise.map over the members, one record  *)
(*              per member (src/src/group.js, Group in src/src/manager.js) *)
(*   SpecDir    the operations of one Directory (src/src/directory.js)     *)
(*   SpecPull   MultiGit.pull() : fetch, status, merge                     *)
(*              (src/lib/multi-git.js)                                      *)
(* Member indexes are 1-based here; the source's array index is i - 1.     *)
(***************************************************************************)
EXTENDS Integers, Sequences, FiniteSets

VARIABLES
    \* ---- Group fan-out
    gBatch,     \* "idle" | "running" | "resolved" | "rejected": the promise Group.<verb>() returned
    gVerb,      \* the verb being run, "none" when idle
    gN,         \* number of members of the group
    gOp,        \* gOp[i]: member i's own operation: "none" | "pending" | "ok" | "fail"
    gSlots,     \* the array Promise.map fills, slot -> record (NoRec while empty)
    gOrder,     \* member indexes in the order their operations settled
    gReturned,  \* the array the batch promise resolved to
    \* ---- one Directory
    dOp,        \* the Directory operation last called, "none" at start
    dIn,        \* what the repository looked like to that call
    dPending,   \* file reads still in flight (getVersion)
    dOut,       \* the settled promise of the call, NoOut while pending
    \* ---- MultiGit.pull
    pPhase,     \* "idle" | "fetch" | "status" | "merge" | "done" | "rejected"
    pRepo,      \* pRepo[r]: the repository as git sees it
    pStep,      \* pStep[r]: the step of pull the repository is in
    pLog,       \* pLog[r]: the steps that ran on r, in order
    pErrors,    \* what console.error reported: a set of <<r, step>>
    \* ---- Group versions
    vOp,        \* the version operation last called, "none" at start
    vIn,        \* the members' versions and the bump it was called with
    vOut,       \* the settled promise of the call
    \* ---- one Directory handle over its lifetime
    hGitDir,    \* what stat of <path>/.git gives: "directory" | "file" | "absent" | "error"; "none": no handle yet
    hHasGit,    \* this._hasGit: "null" | "true" | "false"
    hCalls,     \* the hasGit() calls made, in order, each with what it resolved to
    hConfig,    \* this._config: "null" | "loaded"
    hConfigCalls,   \* number of config() calls made
    hConfigRuns,    \* number of times 'git config --list' was executed
    hConfigPending, \* executions of it still running
    \* ---- git flow commands over a group
    fCmd,       \* the command running: [kind, action, name], NoCmd when none
    fSettings,  \* the group entry merged over defaultGroupSettings, as given to new Group
    fWorth,     \* fWorth[m]: is develop ahead of master in member m
    fRepo,      \* fRepo[m]: the release branches of member m, local and remote-tracking
    fOp,        \* fOp[m]: member m's git flow invocation: "none" | "running" | "ok" | "fail"
    fEnv,       \* process.env.GIT_MERGE_AUTOEDIT: "unset" | "no"
    \* ---- Manager.findConfigFile
    cPhase,     \* "idle" | "stat" | "done": where the findConfigFile call is
    cFiles,     \* cFiles[i]: what is on disk at possiblePaths[i]
    cStat,      \* cStat[i]: what the mapper of possiblePaths[i] resolved to, Pending before
    cOrder,     \* path indexes in the order their stat calls completed
    cOut,       \* the settled promise of the call
    \* ---- Manager.getGroup
    mEnv,       \* what the Manager runs in, as a set: {} before one exists, then {[cwdGit, defaultToProject]}
    mCwdHasGit, \* this.cwd._hasGit: "null" | "true" | "false"
    mActive,    \* this.activeGroup: NoGroup (null) or the Group object, with the call that assigned it
    mCalls,     \* the getGroup calls made, in order: arguments, position, selected group, outcome
    \* ---- Directory.pushAllDefaults
    uPhase,     \* "idle" | "running" | "done": where the pushAllDefaults call is
    uRemotes,   \* uRemotes[b]: config.branch.<b>.remote, "origin" when the config has none
    uChain,     \* uChain[b]: the chain of default branch b: "none" | "checkout" | "push" | "done" | "failed"
    uQueue,     \* the git commands handed to simple-git and not yet run, oldest first
    uLog,       \* the git commands that ran, in order, each with its outcome
    uOut        \* the settled promise of the call

gVars == <<gBatch, gVerb, gN, gOp, gSlots, gOrder, gReturned>>
dVars == <<dOp, dIn, dPending, dOut>>
pVars == <<pPhase, pRepo, pStep, pLog, pErrors>>
vVars == <<vOp, vIn, vOut>>
hVars == <<hGitDir, hHasGit, hCalls, hConfig, hConfigCalls, hConfigRuns, hConfigPending>>
fVars == <<fCmd, fSettings, fWorth, fRepo, fOp, fEnv>>
cVars == <<cPhase, cFiles, cStat, cOrder, cOut>>
mVars == <<mEnv, mCwdHasGit, mActive, mCalls>>
uVars == <<uPhase, uRemotes, uChain, uQueue, uLog, uOut>>
vars == <<gVars, dVars, pVars, vVars, hVars, fVars, cVars, mVars, uVars>>
NotGroup == <<dVars, pVars, vVars, hVars, fVars, cVars, mVars, uVars>>
NotDir == <<gVars, pVars, vVars, hVars, fVars, cVars, mVars, uVars>>
NotPull == <<gVars, dVars, vVars, hVars, fVars, cVars, mVars, uVars>>
NotVersion == <<gVars, dVars, pVars, hVars, fVars, cVars, mVars, uVars>>
NotHandle == <<gVars, dVars, pVars, vVars, fVars, cVars, mVars, uVars>>
NotFlow == <<gVars, dVars, pVars, vVars, hVars, cVars, mVars, uVars>>
NotFind == <<gVars, dVars, pVars, vVars, hVars, fVars, mVars, uVars>>
NotManager == <<gVars, dVars, pVars, vVars, hVars, fVars, cVars, uVars>>
NotPush == <<gVars, dVars, pVars, vVars, hVars, fVars, cVars, mVars>>

\* ------------------------------------------------------------------ bounds
MaxMembers == 3
MaxFiles == 1
MaxBranches == 3
MaxRepos == 2
MaxBehind == 2
MaxCalls == 3
MaxRevisions == 2

\* The elements of a sequence.
Range(s) == {s[k] : k \in 1..Len(s)}

\* ======================================================================
\* Group: one record per member
\* ======================================================================

\* Verbs whose success value is the member's own result, passed through unwrapped
\* (.catch only).
RawVerbs == {"status", "fetch", "checkout", "commit", "branch", "deleteBranch",
             "createBranch", "mergeFromTo", "tag"}

\* Verbs whose success value is replaced by {isRejected: false, parent: member}.
WrappedVerbs == {"push", "pushTags", "addFiles", "unstageFiles", "stash",
                 "pushAllDefaults", "ensureCleanState",
                 "featureStart", "featurePublish", "featureFinish",
                 "releaseStart", "releasePublish", "releaseFinish",
                 "hotfixStart", "hotfixPublish", "hotfixFinish",
                 "bugfixStart", "bugfixPublish", "bugfixFinish",
                 "supportStart", "supportPublish"}

Verbs == RawVerbs \cup WrappedVerbs \cup {"detailedStatus", "pull", "ensureNoActiveRelease"}

\* The errors a member's own operation can reject with.
MemberErrors(verb) ==
    CASE verb = "ensureNoActiveRelease" -> {"active-release", "git"}
      [] verb = "ensureCleanState" -> {"dirty-repo", "ahead-repo", "behind-repo"}
      [] OTHER -> {"git"}

NoParent == 0
NoRec == [origin |-> 0, shape |-> "empty", isRejected |-> FALSE, parent |-> NoParent, error |-> "none"]

\* .catch((error) => { return {isRejected: true, parent: member, error}; })
FailureRecord(i, err) ==
    [origin |-> i, shape |-> "failure", isRejected |-> TRUE, parent |-> i, error |-> err]

\* A member's result passed through as it is: simple-git's summary, no parent on it.
RawPayload(i) ==
    [origin |-> i, shape |-> "payload", isRejected |-> FALSE, parent |-> NoParent, error |-> "none"]

\* Directory.detailedStatus and Directory.pull set .parent = this on what they resolve to.
TaggedPayload(i) ==
    [origin |-> i, shape |-> "payload", isRejected |-> FALSE, parent |-> i, error |-> "none"]

\* .then(() => { return {isRejected: false, parent: member}; })
SuccessRecord(i) ==
    [origin |-> i, shape |-> "wrapper", isRejected |-> FALSE, parent |-> i, error |-> "none"]

\* Group.detailedStatus: the .then in front of the .catch throws NoConfigFileError
\* for the member at array index 2, and .catch turns that into a failure record.
DetailedStatusRecord(i, ok, err) ==
    IF ok
    THEN IF i - 1 = 2 THEN FailureRecord(i, "no-config-file") ELSE TaggedPayload(i)
    ELSE FailureRecord(i, err)

\* The value the mapper's promise for member i resolves to (it never rejects).
MemberRecord(verb, i, ok, err) ==
    CASE verb = "detailedStatus" -> DetailedStatusRecord(i, ok, err)
      [] verb = "pull" -> IF ok THEN TaggedPayload(i) ELSE FailureRecord(i, err)
      [] verb = "ensureNoActiveRelease" -> IF ok THEN SuccessRecord(i) ELSE FailureRecord(i, err)
      [] verb \in RawVerbs -> IF ok THEN RawPayload(i) ELSE FailureRecord(i, err)
      [] OTHER -> IF ok THEN SuccessRecord(i) ELSE FailureRecord(i, err)

\* Promise.map: the value of the mapper called for members[i] goes to index i of the
\* result, whenever it settles.
MapSlotByCompletion(i, order) == Len(order) + 1
MapSlot(i, order) == i

InitGroup ==
    /\ gBatch = "idle"
    /\ gVerb = "none"
    /\ gN = 0
    /\ gOp = [i \in 1..MaxMembers |-> "none"]
    /\ gSlots = [k \in 1..MaxMembers |-> NoRec]
    /\ gOrder = <<>>
    /\ gReturned = <<>>

\* group.<verb>(...): Promise.map calls the mapper for every member.
GroupCall(verb, n) ==
    /\ gBatch = "idle"
    /\ gBatch' = "running"
    /\ gVerb' = verb
    /\ gN' = n
    /\ gOp' = [i \in 1..MaxMembers |-> IF i <= n THEN "pending" ELSE "none"]
    /\ gSlots' = [k \in 1..MaxMembers |-> NoRec]
    /\ gOrder' = <<>>
    /\ gReturned' = <<>>

\* Member i's operation settles; its .then/.catch build the record.
MemberSettles(i, ok, err) ==
    /\ gBatch = "running"
    /\ gOp[i] = "pending"
    /\ gOp' = [gOp EXCEPT ![i] = IF ok THEN "ok" ELSE "fail"]
    /\ gSlots' = [gSlots EXCEPT ![MapSlot(i, gOrder)] = MemberRecord(gVerb, i, ok, err)]
    /\ gOrder' = Append(gOrder, i)
    /\ UNCHANGED <<gBatch, gVerb, gN, gReturned>>

\* Every mapper promise has resolved: the batch resolves to the array.
BatchResolves ==
    /\ gBatch = "running"
    /\ \A i \in 1..gN : gOp[i] \in {"ok", "fail"}
    /\ gBatch' = "resolved"
    /\ gReturned' = [k \in 1..gN |-> gSlots[k]]
    /\ UNCHANGED <<gVerb, gN, gOp, gSlots, gOrder>>

\* The caller's .then has taken the array (Client.run<Verb>: log the table, .done()).
GroupReturn ==
    /\ gBatch = "resolved"
    /\ gBatch' = "idle"
    /\ gVerb' = "none"
    /\ gN' = 0
    /\ gOp' = [i \in 1..MaxMembers |-> "none"]
    /\ gSlots' = [k \in 1..MaxMembers |-> NoRec]
    /\ gOrder' = <<>>
    /\ gReturned' = <<>>

NextGroup ==
    \/ \E verb \in Verbs, n \in 0..MaxMembers : GroupCall(verb, n) /\ UNCHANGED NotGroup
    \/ \E i \in 1..MaxMembers, ok \in BOOLEAN :
          \E err \in MemberErrors(gVerb) : MemberSettles(i, ok, err) /\ UNCHANGED NotGroup
    \/ BatchResolves /\ UNCHANGED NotGroup
    \/ GroupReturn /\ UNCHANGED NotGroup

\* ---------------------------------------------------------------- claims
\* C1: for a group of N members and any fan-out verb, the resolved array has exactly
\* N entries and entry i is the outcome of members[i], whichever members failed and
\* in whatever order the member operations completed.
FanOutKeepsLengthAndOrder ==
    gBatch = "resolved" =>
        /\ Len(gReturned) = gN
        /\ \A i \in 1..gN : gReturned[i].origin = i

\* C1 witness: three members settled last-first, the middle one failing, and the
\* batch has resolved.
FanOutOutOfOrderWitness ==
    /\ gBatch = "resolved"
    /\ gN = 3
    /\ gOrder = <<3, 1, 2>>
    /\ gOp[2] = "fail"
    /\ gOp[1] = "ok"

\* C2: the entry of a member is a failure record if and only if that member's own
\* operation failed, and the batch promise never rejects.
FailureRecordIffMemberFailed ==
    /\ gBatch # "rejected"
    /\ gBatch = "resolved" =>
          \A i \in 1..gN : gReturned[i].isRejected <=> (gOp[i] = "fail")

\* C3: every record a Group verb returns, success as well as failure, carries a
\* parent field equal to the member it belongs to.
EveryRecordCarriesParent ==
    gBatch = "resolved" => \A i \in 1..gN : gReturned[i].parent = i

\* C7: Group.ensureNoActiveRelease rejects with the chain-breaker signal when at
\* least one member fails the check, and resolves only when every member passed.
GroupEnsureNoActiveReleaseBreaksChain ==
    (gVerb = "ensureNoActiveRelease" /\ gBatch = "resolved") =>
        \A i \in 1..gN : gOp[i] = "ok"

\* ======================================================================
\* Directory: the operations of one repository handle
\* ======================================================================
NoOut == [state |-> "pending"]
Resolved(v) == [state |-> "resolved", value |-> v]
Rejected(e) == [state |-> "rejected", error |-> e]

\* ---- detailedStatus
\* simple-git's StatusSummary, each file list by its length.
StatusSummaries ==
    [not_added : 0..MaxFiles, deleted : 0..MaxFiles, modified : 0..MaxFiles,
     created : 0..MaxFiles, renamed : 0..MaxFiles, conflicted : 0..MaxFiles]

\* What getVersion resolves to: a manifest's version text, or the '-' sentinel.
VersionTexts == {"0.1.0", "1.0.0"}
NoVersion == "-"

EditCountWithoutConflicted(status) ==
    0 + status.not_added + status.deleted + status.modified + status.created + status.renamed
EditCount(status) ==
    0 + status.not_added + status.deleted + status.modified + status.created
      + status.renamed + status.conflicted

StatusText(editCount) == IF editCount = 0 THEN "clean" ELSE "dirty"

\* Promise.all([this.status(), this.getVersion()]).then(...): getVersion never
\* rejects, so the call rejects exactly when git status does.
DetailedStatus(status, statusOk, version) ==
    IF statusOk
    THEN Resolved([status |-> status, version |-> version, parent |-> "this",
                   editCount |-> EditCount(status),
                   text |-> StatusText(EditCount(status))])
    ELSE Rejected("git")

DetailedStatusCall(status, statusOk, version) ==
    /\ dOp = "none"
    /\ dOp' = "detailedStatus"
    /\ dIn' = [kind |-> "status", status |-> status]
    /\ dPending' = {}
    /\ dOut' = DetailedStatus(status, statusOk, version)

\* ---- ensureCleanState
\* detailedStatus().then(status => ...): editCount is tested first, then ahead,
\* then behind; a failed detailedStatus passes its error on.
EnsureCleanStateAheadFirst(status, ahead, behind, statusOk) ==
    IF ~statusOk THEN Rejected("git")
    ELSE IF ahead # 0 THEN Rejected("AheadRepositoryError")
    ELSE IF EditCount(status) # 0 THEN Rejected("DirtyRepositoryError")
    ELSE IF behind # 0 THEN Rejected("BehindRepositoryError")
    ELSE Resolved(TRUE)
EnsureCleanState(status, ahead, behind, statusOk) ==
    LET detailed == DetailedStatus(status, statusOk, NoVersion)
    IN IF detailed.state = "rejected" THEN detailed
       ELSE IF detailed.value.editCount # 0 THEN Rejected("DirtyRepositoryError")
       ELSE IF ahead # 0 THEN Rejected("AheadRepositoryError")
       ELSE IF behind # 0 THEN Rejected("BehindRepositoryError")
       ELSE Resolved(TRUE)

\* The record the mapper of Group.ensureCleanState makes of the member's promise.
EnsureCleanStateRecord(out) ==
    IF out.state = "resolved" THEN SuccessRecord(1) ELSE FailureRecord(1, out.error)

EnsureCleanStateCall(status, ahead, behind, statusOk) ==
    /\ dOp = "none"
    /\ dOp' = "ensureCleanState"
    /\ dIn' = [kind |-> "clean", status |-> status, ahead |-> ahead, behind |-> behind,
               statusOk |-> statusOk,
               record |-> EnsureCleanStateRecord(EnsureCleanState(status, ahead, behind, statusOk))]
    /\ dPending' = {}
    /\ dOut' = EnsureCleanState(status, ahead, behind, statusOk)

\* ---- config
\* A key of 'git config --list' as its dot-separated path.
GitflowKeys == {<<"gitflow", "branch", "master">>, <<"gitflow", "branch", "develop">>,
                <<"gitflow", "prefix", "feature">>, <<"gitflow", "prefix", "release">>,
                <<"gitflow", "prefix", "hotfix">>, <<"gitflow", "prefix", "support">>}
RawConfigKeys == GitflowKeys \cup {<<"user", "name">>}
\* The object assigned to config.gitflow when the listing has no gitflow key.
DefaultGitflow ==
    [k \in GitflowKeys \cup {<<"gitflow", "prefix", "versiontag">>} |->
        CASE k[2] = "branch" -> k[3]
          [] k[3] = "versiontag" -> ""
          [] OTHER -> k[3] \o "/"]

\* The .then of config(): every line key=value is set at its path; the default
\* gitflow object is assigned when config.gitflow is falsy, that is when no line
\* had a key under gitflow.
ParseConfig(listing) ==
    LET config == [k \in listing |-> "recorded"]
    IN IF \E k \in listing : k[1] = "gitflow"
       THEN config
       ELSE [k \in listing \cup DOMAIN DefaultGitflow |->
                IF k \in listing THEN config[k] ELSE DefaultGitflow[k]]

\* config() on a handle without a memoized configuration.
ConfigCall(listing, gitOk) ==
    /\ dOp = "none"
    /\ dOp' = "config"
    /\ dIn' = [kind |-> "config", listing |-> listing]
    /\ dPending' = {}
    /\ dOut' = IF gitOk THEN Resolved(ParseConfig(listing)) ELSE Rejected("git")

\* ---- branches and the release branch
\* A branch name is its path segments: release/1 is <<"release", "1">>. The listing
\* of git branch -a -vv, in git's order: local branches, then remote-tracking ones.
BranchUniverse ==
    << <<"master">>, <<"release", "1">>, <<"release", "2">>,
       <<"remotes", "origin", "master">>,
       <<"remotes", "origin", "release", "1">>,
       <<"remotes", "origin", "release", "2">> >>

IsRemoteName(name) == name[1] = "remotes"

\* config.gitflow.prefix.release of the default configuration, 'release/', as the
\* segment in front of the slash.
ReleasePrefix == "release"

\* name.startsWith(prefix), the prefix ending in a slash.
StartsWithPrefix(name, prefix) == Len(name) >= 2 /\ name[1] = prefix

\* new RegExp('^remotes\\/.+\\/(' + prefix + '.+)$').test(name)
RemoteReleaseMatches(name, prefix) ==
    /\ Len(name) >= 4
    /\ name[1] = "remotes"
    /\ \E k \in 3..(Len(name) - 1) : name[k] = prefix

\* ...exec(name)[1]: the first .+ is greedy, the capture starts at the last match.
RemoteReleaseLocalName(name, prefix) ==
    LET ks == {k \in 3..(Len(name) - 1) : name[k] = prefix}
        k == CHOOSE x \in ks : \A y \in ks : y <= x
    IN SubSeq(name, k, Len(name))

\* The listings the calls are tried on: at most MaxBranches of the universe, in
\* order; the label of a local branch starts with "[" when it tracks an upstream,
\* the label of a remote-tracking branch is its commit subject.
RECURSIVE PickInOrder(_, _)
PickInOrder(picked, from) ==
    IF from > Len(BranchUniverse) THEN <<>>
    ELSE IF from \in picked
         THEN <<BranchUniverse[from]>> \o PickInOrder(picked, from + 1)
         ELSE PickInOrder(picked, from + 1)

BranchListings ==
    {PickInOrder(picked, 1) :
        picked \in {s \in SUBSET (1..Len(BranchUniverse)) : Cardinality(s) <= MaxBranches}}

RawBranch(name, tracked) ==
    [name |-> name, label |-> IF tracked /\ ~IsRemoteName(name) THEN "[upstream]" ELSE "subject"]

\* branchVerbose: the forEach over summary.branches.
BranchVerboseOne(branch, prefix) ==
    IF branch.label = "[upstream]"
    THEN [name |-> branch.name, label |-> branch.label, hasUpstream |-> TRUE,
          isRemoteRelease |-> FALSE, localName |-> <<>>]
    ELSE IF RemoteReleaseMatches(branch.name, prefix)
    THEN [name |-> branch.name, label |-> branch.label, hasUpstream |-> FALSE,
          isRemoteRelease |-> TRUE,
          localName |-> RemoteReleaseLocalName(branch.name, prefix)]
    ELSE [name |-> branch.name, label |-> branch.label, hasUpstream |-> FALSE,
          isRemoteRelease |-> FALSE, localName |-> <<>>]

BranchVerbose(listing, prefix) ==
    [k \in 1..Len(listing) |-> BranchVerboseOne(listing[k], prefix)]

\* _.find(collection, predicate): the first element the predicate holds of, or
\* undefined (here: the position, 0 for undefined).
FindLocalRelease(branches, prefix) ==
    LET ks == {k \in 1..Len(branches) : StartsWithPrefix(branches[k].name, prefix)}
    IN IF ks = {} THEN 0 ELSE CHOOSE k \in ks : \A j \in ks : k <= j

FindRemoteRelease(branches) ==
    LET ks == {k \in 1..Len(branches) : branches[k].isRemoteRelease}
    IN IF ks = {} THEN 0 ELSE CHOOSE k \in ks : \A j \in ks : k <= j

\* getReleaseBranch. What _.find returns is one branch object or undefined, never
\* an array, so both MultipleActiveReleaseError tests are false.
GetReleaseBranch(listing, gitOk) ==
    IF ~gitOk THEN Rejected("git")
    ELSE LET prefix == ReleasePrefix
             branches == BranchVerbose(listing, prefix)
             loc == FindLocalRelease(branches, prefix)
             rem == FindRemoteRelease(branches)
         IN IF loc # 0 THEN Resolved(branches[loc])
            ELSE IF rem # 0 THEN Resolved(branches[rem])
            ELSE Rejected("no-active-release")

\* ensureNoActiveRelease: .catch turns NoActiveReleaseError into false and rethrows
\* anything else; .then throws ActiveReleaseError on a truthy result, else !result.
EnsureNoActiveReleaseKeepsBranch(found) ==
    IF found.state = "rejected"
    THEN IF found.error = "no-active-release" THEN Resolved(TRUE) ELSE found
    ELSE found
EnsureNoActiveRelease(found) ==
    IF found.state = "rejected"
    THEN IF found.error = "no-active-release" THEN Resolved(TRUE) ELSE found
    ELSE Rejected("active-release")

GetReleaseBranchCall(listing, gitOk) ==
    /\ dOp = "none"
    /\ dOp' = "getReleaseBranch"
    /\ dIn' = [kind |-> "branches", listing |-> listing, gitOk |-> gitOk]
    /\ dPending' = {}
    /\ dOut' = GetReleaseBranch(listing, gitOk)

EnsureNoActiveReleaseCall(listing, gitOk) ==
    /\ dOp = "none"
    /\ dOp' = "ensureNoActiveRelease"
    /\ dIn' = [kind |-> "branches", listing |-> listing, gitOk |-> gitOk]
    /\ dPending' = {}
    /\ dOut' = EnsureNoActiveRelease(GetReleaseBranch(listing, gitOk))

\* ---- getVersion
\* The manifests in the order getVersion lists them.
ManifestFiles == <<"bower.json", "composer.json", "package.json">>
\* A manifest: absent (the read rejects with ENOENT), not JSON, JSON without a
\* version, or JSON with a version.
ManifestContents == {"absent", "invalid", "noversion"} \cup VersionTexts
ManifestStates == [1..Len(ManifestFiles) -> ManifestContents]

\* JSON.parse(result.toString()).version || '-', and the .catch around it.
VersionOfContent(content) ==
    IF content \in VersionTexts THEN content ELSE NoVersion

\* getVersion(): the three reads start at once.
GetVersionCall(manifests) ==
    /\ dOp = "none"
    /\ dOp' = "getVersion"
    /\ dIn' = [kind |-> "manifests", files |-> manifests]
    /\ dPending' = 1..Len(ManifestFiles)
    /\ dOut' = NoOut

\* One read settles. Promise.some(reads, 1) fulfils with the first read that
\* fulfils and rejects once all of them have rejected; later reads change nothing.
ReadFileSettles(f) ==
    /\ dOp = "getVersion"
    /\ f \in dPending
    /\ dPending' = dPending \ {f}
    /\ dOut' = IF dOut # NoOut THEN dOut
               ELSE IF dIn.files[f] # "absent" THEN Resolved(VersionOfContent(dIn.files[f]))
               ELSE IF dPending = {f} THEN Resolved(NoVersion)
               ELSE NoOut
    /\ UNCHANGED <<dOp, dIn>>

\* ---- setVersion
\* The manifests in the order setVersion patches them.
PackageFiles == <<"bower.json", "package.json", "composer.json">>
\* A manifest as updatePackageFile finds it: "ok" is patched; "absent" fails the
\* read with ENOENT, "unreadable" with EACCES; "invalid" makes JSON.parse throw a
\* SyntaxError (no code); "readonly" fails the write with EACCES.
PackageFileStates == {"ok", "absent", "unreadable", "invalid", "readonly"}
PackageStates == [1..Len(PackageFiles) -> PackageFileStates]

\* The error object raised on file f: its code, and which object it is.
ErrorCode(fileState) ==
    CASE fileState = "absent" -> "ENOENT"
      [] fileState \in {"unreadable", "readonly"} -> "EACCES"
      [] OTHER -> "undefined"
RaisedError(f, fileState) == [code |-> ErrorCode(fileState), raisedOn |-> f]
NoPackageError == [code |-> "NoPackageError", raisedOn |-> 0]
PlainError == [code |-> "Error", raisedOn |-> 0]

\* updatePackageFile(filename, patch): {filename, success: true} or {filename, error}.
UpdatePackageFile(f, fileState) ==
    IF fileState = "ok"
    THEN [filename |-> PackageFiles[f], success |-> TRUE, error |-> [code |-> "undefined", raisedOn |-> 0]]
    ELSE [filename |-> PackageFiles[f], success |-> FALSE, error |-> RaisedError(f, fileState)]

\* _.map(_.filter(result, {success: true}), 'filename')
RECURSIVE SuccessFilenames(_, _)
SuccessFilenames(result, from) ==
    IF from > Len(result) THEN <<>>
    ELSE IF result[from].success
         THEN <<result[from].filename>> \o SuccessFilenames(result, from + 1)
         ELSE SuccessFilenames(result, from + 1)

\* The .then of setVersion over the three results.
SetVersion(files) ==
    LET result == [f \in 1..Len(PackageFiles) |-> UpdatePackageFile(f, files[f])]
        success == SuccessFilenames(result, 1)
        code == result[1].error.code
        count == Cardinality({f \in 1..Len(result) : result[f].error.code = code})
    IN IF success # <<>> THEN Resolved(success)
       ELSE IF count = Len(result)
            THEN IF code = "ENOENT" THEN Rejected(NoPackageError) ELSE Rejected(result[1].error)
            ELSE Rejected(PlainError)

SetVersionCall(files) ==
    /\ dOp = "none"
    /\ dOp' = "setVersion"
    /\ dIn' = [kind |-> "packages", files |-> files]
    /\ dPending' = {}
    /\ dOut' = SetVersion(files)

\* ---- supportPublish
\* An argument or property that is undefined.
NotSet == <<>>
\* The names supportPublish is called with (NotSet: no name), and the branches
\* git status reports as current.
SupportNames == {NotSet, <<"1.x">>}
CurrentBranches == {<<"master">>, <<"develop">>, <<"support", "1.x">>, <<"support", "2.x">>}
\* What config() resolves to, as far as supportPublish reads it: the support
\* prefix 'support/' (the segment in front of the slash) and the remote of the
\* git flow master branch. git config --list has only section.key lines, so the
\* object has no property named current.
Configs == [supportPrefix : {"support"}, masterRemote : {"origin", "upstream"}]
ConfigCurrent(config) == IF "current" \in DOMAIN config THEN config["current"] ELSE NotSet

\* getDefaultRemote(config)
GetDefaultRemote(config) == config.masterRemote

\* The branch the .then of supportPublish passes to push, or the error it throws.
SupportBranch(name, config, current) ==
    IF name # NotSet THEN [ok |-> TRUE, branch |-> <<config.supportPrefix>> \o name]
    ELSE IF StartsWithPrefix(current, config.supportPrefix)
    THEN [ok |-> TRUE, branch |-> ConfigCurrent(config)]
    ELSE [ok |-> FALSE, branch |-> NotSet]

\* supportPublish(name): the pushes it makes, and what it settles to.
SupportPublishInvocations(name, config, current) ==
    IF SupportBranch(name, config, current).ok
    THEN <<[cmd |-> "push", remote |-> GetDefaultRemote(config),
            branch |-> SupportBranch(name, config, current).branch]>>
    ELSE <<>>
SupportPublish(name, config, current, pushOk) ==
    IF ~SupportBranch(name, config, current).ok THEN Rejected("InvalidSupportBranchError")
    ELSE IF pushOk THEN Resolved("pushed") ELSE Rejected("git")

SupportPublishCall(name, config, current, pushOk) ==
    /\ dOp = "none"
    /\ dOp' = "supportPublish"
    /\ dIn' = [kind |-> "support", name |-> name, config |-> config, current |-> current,
               invoked |-> SupportPublishInvocations(name, config, current)]
    /\ dPending' = {}
    /\ dOut' = SupportPublish(name, config, current, pushOk)

\* ---- isNextReleaseWorthCreating
\* What git rev-list --left-right --count left...right prints: the number of
\* commits only left has and the number only right has, or (valid FALSE) a text
\* the regular expression of countRevisions does not match.
RevLists == [valid : BOOLEAN, leftCount : 0..MaxRevisions, rightCount : 0..MaxRevisions]
\* The bases the check is called with (NotSet: develop is taken).
ReleaseBases == {NotSet, <<"hotfix", "1">>}

\* diff of the object countRevisions resolves to.
RevisionsDiffSwapped(leftCount, rightCount) == leftCount - rightCount
RevisionsDiff(leftCount, rightCount) == rightCount - leftCount

\* countRevisions(left, right)
CountRevisions(revList) ==
    IF revList.valid
    THEN Resolved([left |-> revList.leftCount, right |-> revList.rightCount,
                   diff |-> RevisionsDiff(revList.leftCount, revList.rightCount)])
    ELSE Rejected("invalid comparison")

\* isNextReleaseWorthCreating(base): config, then rev-list and diff --stat of
\* master and base || develop, then revisions.diff > 0 && summary.files.length > 0.
IsNextReleaseWorthCreating(revList, files, gitOk) ==
    IF ~gitOk THEN Rejected("git")
    ELSE IF CountRevisions(revList).state = "rejected" THEN CountRevisions(revList)
    ELSE Resolved(CountRevisions(revList).value.diff > 0 /\ files > 0)

IsNextReleaseWorthCreatingCall(base, revList, files, gitOk) ==
    /\ dOp = "none"
    /\ dOp' = "isNextReleaseWorthCreating"
    /\ dIn' = [kind |-> "revisions", left |-> <<"master">>,
               right |-> IF base # NotSet THEN base ELSE <<"develop">>,
               revList |-> revList, files |-> files]
    /\ dPending' = {}
    /\ dOut' = IsNextReleaseWorthCreating(revList, files, gitOk)

\* ---- git flow <kind> start
FlowKinds == {"feature", "release", "hotfix", "bugfix", "support"}
\* The name and base arguments; "" stands for an argument not given (if (name)).
FlowNames == {"", "1.0.0"}
FlowBases == {"", "develop"}

\* The args <kind>Start(name, base) builds.
FlowStartArgs(kind, name, base) ==
    <<"flow", kind, "start">>
        \o (IF name # "" THEN <<name>> \o (IF base # "" THEN <<base>> ELSE <<>>) ELSE <<>>)

\* <kind>Start(name, base): this.git.rawAsync(args) and nothing else. What git flow
\* makes of the invocation is not in the sources: it creates the branch, or it
\* refuses and the promise rejects with git's error.
FlowStart(kind, name, gitFlowOk) == IF gitFlowOk THEN Resolved("started") ELSE Rejected("git")

FlowStartCall(kind, name, base, status, gitFlowOk) ==
    /\ dOp = "none"
    /\ dOp' = "flowStart"
    /\ dIn' = [kind |-> "flow", status |-> status,
               call |-> [kind |-> kind, name |-> name, base |-> base],
               invoked |-> <<FlowStartArgs(kind, name, base)>>,
               created |-> IF gitFlowOk THEN {<<kind, name>>} ELSE {}]
    /\ dPending' = {}
    /\ dOut' = FlowStart(kind, name, gitFlowOk)

\* ---- git flow <kind> publish, git flow <kind> finish
\* The kinds that have a <kind>Publish and a <kind>Finish of this form.
PublishKinds == {"feature", "release", "hotfix", "bugfix"}

\* The args <kind>Publish(name) builds.
FlowPublishArgs(kind, name) ==
    <<"flow", kind, "publish">> \o (IF name # "" THEN <<name>> ELSE <<>>)

\* The args <kind>Finish(name) builds: releaseFinish, hotfixFinish and
\* bugfixFinish push '-m', 'Finish' after the name (releaseFinish's extras
\* default to none); featureFinish does not.
FlowFinishArgsPlain(kind, name) ==
    <<"flow", kind, "finish">> \o (IF name # "" THEN <<name>> ELSE <<>>)
FlowFinishArgs(kind, name) ==
    <<"flow", kind, "finish">>
        \o (IF name # "" THEN <<name>> ELSE <<>>)
        \o (IF kind # "feature" THEN <<"-m", "Finish">> ELSE <<>>)

\* <kind>Publish(name) and <kind>Finish(name): one this.git.rawAsync(args) each.
FlowPublishCall(kind, name, gitFlowOk) ==
    /\ dOp = "none"
    /\ dOp' = "flowPublish"
    /\ dIn' = [kind |-> "flow", call |-> [kind |-> kind, name |-> name, base |-> ""],
               invoked |-> <<FlowPublishArgs(kind, name)>>]
    /\ dPending' = {}
    /\ dOut' = IF gitFlowOk THEN Resolved("published") ELSE Rejected("git")

FlowFinishCall(kind, name, gitFlowOk) ==
    /\ dOp = "none"
    /\ dOp' = "flowFinish"
    /\ dIn' = [kind |-> "flow", call |-> [kind |-> kind, name |-> name, base |-> ""],
               invoked |-> <<FlowFinishArgs(kind, name)>>]
    /\ dPending' = {}
    /\ dOut' = IF gitFlowOk THEN Resolved("finished") ELSE Rejected("git")

\* startRelease(name) of the earlier Directory: it takes editCount from what
\* status() resolves to, simple-git's summary, which has no editCount; undefined
\* > 0 is false, and createBranch(prefix + name, develop) runs.
RawStatusEditCount(status) == IF "editCount" \in DOMAIN status THEN status["editCount"] ELSE 0
StartRelease(name, status, gitOk) ==
    IF RawStatusEditCount(status) > 0 THEN Rejected("DirtyRepositoryError")
    ELSE IF gitOk THEN Resolved("started") ELSE Rejected("git")

StartReleaseCall(name, status, gitOk) ==
    /\ dOp = "none"
    /\ dOp' = "startRelease"
    /\ dIn' = [kind |-> "flow", status |-> status,
               invoked |-> IF RawStatusEditCount(status) > 0 THEN <<>>
                           ELSE <<<<"checkout", "-b", name, "develop">>>>,
               created |-> IF RawStatusEditCount(status) = 0 /\ gitOk THEN {<<"release", name>>} ELSE {}]
    /\ dPending' = {}
    /\ dOut' = StartRelease(name, status, gitOk)

InitDir ==
    /\ dOp = "none"
    /\ dIn = [kind |-> "none"]
    /\ dPending = {}
    /\ dOut = NoOut

\* The caller has taken the settled promise; the handle is ready for the next call.
DirReturn ==
    /\ dOp # "none"
    /\ dOut # NoOut
    /\ dPending = {}
    /\ dOp' = "none"
    /\ dIn' = [kind |-> "none"]
    /\ dPending' = {}
    /\ dOut' = NoOut

NextDir ==
    \/ /\ dOp = "none"
       /\ \E status \in StatusSummaries, statusOk \in BOOLEAN, version \in VersionTexts \cup {NoVersion} :
             DetailedStatusCall(status, statusOk, version) /\ UNCHANGED NotDir
    \/ /\ dOp = "none"
       /\ \E names \in BranchListings, gitOk \in BOOLEAN :
             \E tracked \in SUBSET {k \in 1..Len(names) : ~IsRemoteName(names[k])} :
                GetReleaseBranchCall([k \in 1..Len(names) |-> RawBranch(names[k], k \in tracked)], gitOk)
                /\ UNCHANGED NotDir
    \/ /\ dOp = "none"
       /\ \E names \in BranchListings, gitOk \in BOOLEAN :
             \E tracked \in SUBSET {k \in 1..Len(names) : ~IsRemoteName(names[k])} :
                EnsureNoActiveReleaseCall([k \in 1..Len(names) |-> RawBranch(names[k], k \in tracked)], gitOk)
                /\ UNCHANGED NotDir
    \/ /\ dOp = "none"
       /\ \E manifests \in ManifestStates : GetVersionCall(manifests) /\ UNCHANGED NotDir
    \/ /\ dOp = "none"
       /\ \E files \in PackageStates : SetVersionCall(files) /\ UNCHANGED NotDir
    \/ /\ dOp = "none"
       /\ \E name \in SupportNames, config \in Configs, current \in CurrentBranches, pushOk \in BOOLEAN :
             SupportPublishCall(name, config, current, pushOk) /\ UNCHANGED NotDir
    \/ /\ dOp = "none"
       /\ \E base \in ReleaseBases, revList \in RevLists, files \in 0..MaxFiles, gitOk \in BOOLEAN :
             IsNextReleaseWorthCreatingCall(base, revList, files, gitOk) /\ UNCHANGED NotDir
    \/ /\ dOp = "none"
       /\ \E kind \in FlowKinds, name \in FlowNames, base \in FlowBases :
             \E status \in StatusSummaries, gitFlowOk \in BOOLEAN :
                FlowStartCall(kind, name, base, status, gitFlowOk) /\ UNCHANGED NotDir
    \/ /\ dOp = "none"
       /\ \E status \in StatusSummaries, ahead \in 0..MaxBehind, behind \in 0..MaxBehind :
             \E statusOk \in BOOLEAN :
                EnsureCleanStateCall(status, ahead, behind, statusOk) /\ UNCHANGED NotDir
    \/ /\ dOp = "none"
       /\ \E listing \in SUBSET RawConfigKeys, gitOk \in BOOLEAN :
             ConfigCall(listing, gitOk) /\ UNCHANGED NotDir
    \/ /\ dOp = "none"
       /\ \E kind \in PublishKinds, name \in FlowNames, gitFlowOk \in BOOLEAN :
             FlowPublishCall(kind, name, gitFlowOk) /\ UNCHANGED NotDir
    \/ /\ dOp = "none"
       /\ \E kind \in PublishKinds, name \in FlowNames, gitFlowOk \in BOOLEAN :
             FlowFinishCall(kind, name, gitFlowOk) /\ UNCHANGED NotDir
    \/ /\ dOp = "none"
       /\ \E name \in FlowNames, status \in StatusSummaries, gitOk \in BOOLEAN :
             StartReleaseCall(name, status, gitOk) /\ UNCHANGED NotDir
    \/ \E f \in 1..Len(ManifestFiles) : ReadFileSettles(f) /\ UNCHANGED NotDir
    \/ DirReturn /\ UNCHANGED NotDir

\* ---------------------------------------------------------------- claims
\* C4: detailedStatus sets editCount to the sum of the counts of not_added, deleted,
\* modified, created, renamed and conflicted files, and text to 'clean' exactly when
\* editCount is 0 and to 'dirty' otherwise.
DetailedStatusCountsEdits ==
    (dOp = "detailedStatus" /\ dOut.state = "resolved") =>
        LET st == dIn.status
            sum == st.not_added + st.deleted + st.modified + st.created
                     + st.renamed + st.conflicted
        IN /\ dOut.value.editCount = sum
           /\ dOut.value.text = "clean" <=> sum = 0
           /\ dOut.value.text = "dirty" <=> sum # 0

\* C4 witness: one conflicted file and nothing else gives a dirty status of one edit.
DetailedStatusDirtyWitness ==
    /\ dOp = "detailedStatus"
    /\ dOut.state = "resolved"
    /\ dIn.status.conflicted = 1
    /\ dIn.status.modified = 0
    /\ dOut.value.editCount = 1
    /\ dOut.value.text = "dirty"

LocalReleases(listing) ==
    {k \in 1..Len(listing) :
        ~IsRemoteName(listing[k].name) /\ StartsWithPrefix(listing[k].name, ReleasePrefix)}
RemoteReleases(listing) ==
    {k \in 1..Len(listing) : RemoteReleaseMatches(listing[k].name, ReleasePrefix)}

\* C5: getReleaseBranch fails with no-active-release when no local or remote branch
\* matches the release prefix, returns the branch descriptor when exactly one
\* matches, and fails with multiple-active-release when two or more local branches
\* (or, with no local one, two or more remote candidates) match.
GetReleaseBranchCardinality ==
    (dOp = "getReleaseBranch" /\ dIn.gitOk) =>
        LET nLocal == Cardinality(LocalReleases(dIn.listing))
            nRemote == Cardinality(RemoteReleases(dIn.listing))
        IN /\ (nLocal = 0 /\ nRemote = 0) => dOut = Rejected("no-active-release")
           /\ (nLocal + nRemote = 1) =>
                 /\ dOut.state = "resolved"
                 /\ \E k \in LocalReleases(dIn.listing) \cup RemoteReleases(dIn.listing) :
                       dOut.value.name = dIn.listing[k].name
           /\ (nLocal >= 2 \/ (nLocal = 0 /\ nRemote >= 2)) =>
                 dOut = Rejected("multiple-active-release")

FirstExisting(manifests) ==
    LET ks == {k \in 1..Len(ManifestFiles) : manifests[k] # "absent"}
    IN IF ks = {} THEN 0 ELSE CHOOSE k \in ks : \A j \in ks : k <= j

\* C10: getVersion returns the version recorded in the highest-priority manifest
\* that exists, in the order bower.json, composer.json, package.json, whatever the
\* order in which the reads complete, and '-' when none exists; it never rejects.
GetVersionFollowsPriority ==
    dOp = "getVersion" =>
        /\ dOut.state # "rejected"
        /\ dOut.state = "resolved" =>
              dOut.value = IF FirstExisting(dIn.files) = 0 THEN NoVersion
                           ELSE VersionOfContent(dIn.files[FirstExisting(dIn.files)])

\* C11: setVersion resolves with the names of the patched manifests when at least
\* one was patched; when none was, it rejects with the no-manifest error exactly
\* when every manifest is absent, and otherwise with one of the error objects the
\* reads, parses and writes raised, as it was raised.
SetVersionReportsUnderlyingError ==
    dOp = "setVersion" =>
        LET files == dIn.files
            patched == {f \in 1..Len(PackageFiles) : files[f] = "ok"}
        IN IF patched # {}
           THEN /\ dOut.state = "resolved"
                /\ {dOut.value[k] : k \in 1..Len(dOut.value)} = {PackageFiles[f] : f \in patched}
           ELSE IF \A f \in 1..Len(PackageFiles) : files[f] = "absent"
           THEN dOut = Rejected(NoPackageError)
           ELSE /\ dOut.state = "rejected"
                /\ \E f \in 1..Len(PackageFiles) : dOut.error = RaisedError(f, files[f])

\* C15: supportPublish(name) pushes, to the remote of the master branch, the
\* branch <support prefix><name> when name is given and the current branch when
\* name is absent and the current branch starts with the support prefix; when
\* name is absent and the current branch does not start with the prefix it fails
\* with the invalid-support-branch error and pushes nothing.
SupportPublishPushesSupportBranch ==
    dOp = "supportPublish" =>
        IF dIn.name # NotSet
        THEN dIn.invoked = <<[cmd |-> "push", remote |-> dIn.config.masterRemote,
                              branch |-> <<"support">> \o dIn.name]>>
        ELSE IF dIn.current[1] = "support" /\ Len(dIn.current) > 1
        THEN dIn.invoked = <<[cmd |-> "push", remote |-> dIn.config.masterRemote,
                              branch |-> dIn.current]>>
        ELSE dOut = Rejected("InvalidSupportBranchError") /\ dIn.invoked = <<>>

FlowStartOnDirtyTreeFails ==
    (dOp \in {"flowStart", "startRelease"} /\ EditCount(dIn.status) > 0) =>
        /\ dOut = Rejected("DirtyRepositoryError")
        /\ dIn.created = {}

EnsureCleanStatePrecedence ==
    (dOp = "ensureCleanState" /\ dIn.statusOk) =>
        LET edits == dIn.status.not_added + dIn.status.deleted + dIn.status.modified
                       + dIn.status.created + dIn.status.renamed + dIn.status.conflicted
        IN /\ (dOut = Resolved(TRUE)) <=> (edits = 0 /\ dIn.ahead = 0 /\ dIn.behind = 0)
           /\ edits # 0 => dOut = Rejected("DirtyRepositoryError")
           /\ (edits = 0 /\ dIn.ahead # 0) => dOut = Rejected("AheadRepositoryError")
           /\ (edits = 0 /\ dIn.ahead = 0 /\ dIn.behind # 0) => dOut = Rejected("BehindRepositoryError")
           /\ dIn.record.parent # NoParent
           /\ dIn.record.isRejected <=> (dOut.state = "rejected")
           /\ dIn.record.isRejected => dIn.record.error = dOut.error

\* A member that is dirty, ahead and behind at once failed as dirty.
EnsureCleanStateWitness ==
    /\ dOp = "ensureCleanState"
    /\ dIn.statusOk
    /\ dIn.status.modified > 0 /\ dIn.ahead > 0 /\ dIn.behind > 0
    /\ dOut = Rejected("DirtyRepositoryError")
    /\ dIn.record.isRejected

\* C30: for every raw configuration listing, including one that records only
\* some gitflow keys, the mapping config() resolves to has gitflow.branch.master,
\* gitflow.branch.develop and gitflow.prefix.feature, release, hotfix and support
\* all defined.
ConfigDefinesEveryGitflowKey ==
    (dOp = "config" /\ dOut.state = "resolved") => GitflowKeys \subseteq DOMAIN dOut.value

\* ======================================================================
\* MultiGit.pull: fetch every repository, recompute the status, merge
\* ======================================================================
\* A repository as RepoList.load leaves it: upstream says whether currentUpstream
\* is set; remoteTip counts the commits the remote has and the local branch lacks;
\* trackTip is what the remote-tracking ref shows of them; localTip is how many of
\* them the local branch has merged. status is repository.status.
Repositories ==
    [upstream : BOOLEAN, dirty : BOOLEAN, remoteTip : 0..MaxBehind,
     trackTip : {0}, localTip : {0}, status : {[text |-> "unknown", behind |-> 0]}]

\* get repositoriesWithValidUpstream
RepositoriesWithValidUpstream(repos) == {r \in DOMAIN repos : repos[r].upstream}

\* status(): text from the pending changes, behind from Graph.aheadBehind of the
\* local branch and its upstream.
StatusOf(repo) ==
    [text |-> IF repo.dirty THEN "dirty" ELSE "clean", behind |-> repo.trackTip - repo.localTip]

\* pull()'s filter: repository.status.text === 'clean' && repository.status.behind > 0
ShouldMergeIgnoringText(status) == status.behind > 0
ShouldMerge(status) == status.text = "clean" /\ status.behind > 0

Busy(r) == pStep[r] \in {"fetching", "statusing", "merging"}

\* pull(): this.fetch(repositories), repositories undefined.
PullCall(repos) ==
    /\ pPhase = "idle"
    /\ pPhase' = "fetch"
    /\ pRepo' = repos
    /\ pStep' = [r \in DOMAIN repos |-> IF repos[r].upstream THEN "fetching" ELSE "noUpstream"]
    /\ pLog' = [r \in DOMAIN repos |-> <<>>]
    /\ pErrors' = {}

\* repository.git.fetch(...) settles: .then gives the repository, .catch reports
\* the error and gives undefined.
FetchSettles(r, ok) ==
    /\ pPhase = "fetch"
    /\ r \in DOMAIN pStep
    /\ pStep[r] = "fetching"
    /\ pStep' = [pStep EXCEPT ![r] = IF ok THEN "fetched" ELSE "fetchFailed"]
    /\ pRepo' = IF ok THEN [pRepo EXCEPT ![r].trackTip = pRepo[r].remoteTip] ELSE pRepo
    /\ pLog' = [pLog EXCEPT ![r] = Append(@, "fetch")]
    /\ pErrors' = IF ok THEN pErrors ELSE pErrors \cup {<<r, "fetch">>}
    /\ UNCHANGED pPhase

\* Promise.all of the fetches resolves and .then calls this.status(result). _.map
\* calls getStatus on the entries in order and throws a TypeError at the first
\* undefined one (repository.git of undefined): pull rejects, the status calls
\* already started run on.
FetchesDone ==
    /\ pPhase = "fetch"
    /\ \A r \in DOMAIN pStep : pStep[r] # "fetching"
    /\ LET failed == {r \in DOMAIN pStep : pStep[r] = "fetchFailed"}
           before(r) == \A f \in failed : r < f
       IN /\ pPhase' = IF failed = {} THEN "status" ELSE "rejected"
          /\ pStep' = [r \in DOMAIN pStep |->
                          IF pStep[r] = "fetched" /\ before(r) THEN "statusing" ELSE pStep[r]]
    /\ UNCHANGED <<pRepo, pLog, pErrors>>

\* One status computation settles: it writes repository.status, or .catch reports
\* the error and gives undefined.
StatusSettles(r, ok) ==
    /\ r \in DOMAIN pStep
    /\ pStep[r] = "statusing"
    /\ pStep' = [pStep EXCEPT ![r] = IF ok THEN "statused" ELSE "statusFailed"]
    /\ pRepo' = IF ok THEN [pRepo EXCEPT ![r].status = StatusOf(pRepo[r])] ELSE pRepo
    /\ pLog' = [pLog EXCEPT ![r] = Append(@, "status")]
    /\ pErrors' = IF ok THEN pErrors ELSE pErrors \cup {<<r, "status">>}
    /\ UNCHANGED pPhase

\* Promise.all of the status calls resolves: the filter reads repository.status of
\* every entry and throws a TypeError on an undefined one; otherwise mergeBranches
\* is called on the entries the filter keeps.
StatusesDone ==
    /\ pPhase = "status"
    /\ \A r \in DOMAIN pStep : pStep[r] # "statusing"
    /\ IF \E r \in DOMAIN pStep : pStep[r] = "statusFailed"
       THEN pPhase' = "rejected" /\ UNCHANGED pStep
       ELSE /\ pPhase' = "merge"
            /\ pStep' = [r \in DOMAIN pStep |->
                            IF pStep[r] = "statused"
                            THEN IF ShouldMerge(pRepo[r].status) THEN "merging" ELSE "skipped"
                            ELSE pStep[r]]
    /\ UNCHANGED <<pRepo, pLog, pErrors>>

\* repository.git.mergeBranches(...) settles; .catch reports the error.
MergeSettles(r, ok) ==
    /\ pPhase = "merge"
    /\ r \in DOMAIN pStep
    /\ pStep[r] = "merging"
    /\ pStep' = [pStep EXCEPT ![r] = IF ok THEN "merged" ELSE "mergeFailed"]
    /\ pRepo' = IF ok THEN [pRepo EXCEPT ![r].localTip = pRepo[r].trackTip] ELSE pRepo
    /\ pLog' = [pLog EXCEPT ![r] = Append(@, "merge")]
    /\ pErrors' = IF ok THEN pErrors ELSE pErrors \cup {<<r, "merge">>}
    /\ UNCHANGED pPhase

\* Promise.all of the merges resolves, and pull with it.
MergesDone ==
    /\ pPhase = "merge"
    /\ \A r \in DOMAIN pStep : pStep[r] # "merging"
    /\ pPhase' = "done"
    /\ UNCHANGED <<pRepo, pStep, pLog, pErrors>>

\* The command is over (cli.js: the table is logged, or the error is).
PullReturn ==
    /\ pPhase \in {"done", "rejected"}
    /\ \A r \in DOMAIN pStep : ~Busy(r)
    /\ pPhase' = "idle"
    /\ pRepo' = <<>>
    /\ pStep' = <<>>
    /\ pLog' = <<>>
    /\ pErrors' = {}

InitPull ==
    /\ pPhase = "idle"
    /\ pRepo = <<>>
    /\ pStep = <<>>
    /\ pLog = <<>>
    /\ pErrors = {}

NextPull ==
    \/ /\ pPhase = "idle"
       /\ \E n \in 1..MaxRepos : \E repos \in [1..n -> Repositories] :
             PullCall(repos) /\ UNCHANGED NotPull
    \/ \E r \in 1..MaxRepos, ok \in BOOLEAN : FetchSettles(r, ok) /\ UNCHANGED NotPull
    \/ FetchesDone /\ UNCHANGED NotPull
    \/ \E r \in 1..MaxRepos, ok \in BOOLEAN : StatusSettles(r, ok) /\ UNCHANGED NotPull
    \/ StatusesDone /\ UNCHANGED NotPull
    \/ \E r \in 1..MaxRepos, ok \in BOOLEAN : MergeSettles(r, ok) /\ UNCHANGED NotPull
    \/ MergesDone /\ UNCHANGED NotPull
    \/ PullReturn /\ UNCHANGED NotPull

\* ---------------------------------------------------------------- claims
MergeRan(r) == pStep[r] \in {"merging", "merged", "mergeFailed"}
FetchSucceeded(r) == pLog[r] # <<>> /\ <<r, "fetch">> \notin pErrors

\* C8: in the pull composite the merge step runs for exactly the members whose fetch
\* succeeded and whose status, recomputed after the fetch, is clean with behind > 0,
\* also when other members' fetches fail; a merged member went through fetch, then
\* status, then merge.
PullMergesExactlyTheEligible ==
    (pPhase \in {"done", "rejected"} /\ \A r \in DOMAIN pStep : pStep[r] \notin {"statusing", "statusFailed"}) =>
        \A r \in DOMAIN pStep :
            /\ MergeRan(r) <=>
                  (FetchSucceeded(r) /\ ~pRepo[r].dirty /\ pRepo[r].remoteTip > 0)
            /\ MergeRan(r) => SubSeq(pLog[r], 1, 2) = <<"fetch", "status">>

DigitChars == <<"0", "1", "2", "3", "4", "5", "6", "7", "8", "9">>
LowerChars == <<"a", "b", "c", "d", "e", "f", "g", "h", "i", "j", "k", "l", "m",
                "n", "o", "p", "q", "r", "s", "t", "u", "v", "w", "x", "y", "z">>
IsDigit(c) == \E k \in 1..Len(DigitChars) : DigitChars[k] = c
IsLower(c) == \E k \in 1..Len(LowerChars) : LowerChars[k] = c
\* \w of a JavaScript regular expression, over the characters used here.
IsWordChar(c) == IsDigit(c) \/ IsLower(c) \/ c = "_"

\* The UTF-16 code unit of a character, which Array.prototype.sort compares by.
CharCode(c) ==
    IF IsDigit(c) THEN 47 + (CHOOSE k \in 1..Len(DigitChars) : DigitChars[k] = c)
    ELSE IF IsLower(c) THEN 96 + (CHOOSE k \in 1..Len(LowerChars) : LowerChars[k] = c)
    ELSE CASE c = "+" -> 43 [] c = "-" -> 45 [] c = "." -> 46 [] c = "_" -> 95

\* The index after the longest run of characters of a class that starts at k
\* (k itself when the run is empty): how a greedy \d+ or \w+ ends.
RECURSIVE DigitsEnd(_, _)
DigitsEnd(s, k) == IF k <= Len(s) /\ IsDigit(s[k]) THEN DigitsEnd(s, k + 1) ELSE k
RECURSIVE WordEnd(_, _)
WordEnd(s, k) == IF k <= Len(s) /\ IsWordChar(s[k]) THEN WordEnd(s, k + 1) ELSE k

CharAt(s, k) == IF k <= Len(s) THEN s[k] ELSE "$"

\* VersionRegexp.test(s): ^\d+\.\d+\.\d+(?:-\w+(?:\.\d+)?)?$
VersionRegexpTest(s) ==
    LET a == DigitsEnd(s, 1)
        b == DigitsEnd(s, a + 1)
        c == DigitsEnd(s, b + 1)
        w == WordEnd(s, c + 1)
        d == DigitsEnd(s, w + 1)
    IN /\ a > 1 /\ CharAt(s, a) = "."
       /\ b > a + 1 /\ CharAt(s, b) = "."
       /\ c > b + 1
       /\ \/ c = Len(s) + 1
          \/ /\ CharAt(s, c) = "-"
             /\ w > c + 1
             /\ \/ w = Len(s) + 1
                \/ CharAt(s, w) = "." /\ d > w + 1 /\ d = Len(s) + 1

\* Decimal text to number and back.
RECURSIVE ParseNumber(_)
ParseNumber(s) ==
    IF s = <<>> THEN 0
    ELSE 10 * ParseNumber(SubSeq(s, 1, Len(s) - 1)) + (CharCode(s[Len(s)]) - 48)
RECURSIVE NumberText(_)
NumberText(n) ==
    IF n < 10 THEN <<DigitChars[n + 1]>> ELSE NumberText(n \div 10) \o <<DigitChars[(n % 10) + 1]>>

VersionText(major, minor, patch) ==
    NumberText(major) \o <<".">> \o NumberText(minor) \o <<".">> \o NumberText(patch)

\* a < b as strings compare: by code unit, a proper prefix first.
RECURSIVE StringLess(_, _)
StringLess(a, b) ==
    IF b = <<>> THEN FALSE
    ELSE IF a = <<>> THEN TRUE
    ELSE IF a[1] = b[1] THEN StringLess(Tail(a), Tail(b))
    ELSE CharCode(a[1]) < CharCode(b[1])

\* ---- the inputs
\* What member.getVersion() resolves to: a manifest's version, or "-".
MemberVersions == {<<"-">>,
                   <<"0", ".", "9", ".", "0">>,
                   <<"1", ".", "2", ".", "3">>,
                   <<"1", ".", "9", ".", "0">>,
                   <<"1", ".", "1", "0", ".", "0">>}
\* The versions of the members of a group, in member order.
GroupVersions == UNION {[1..n -> MemberVersions] : n \in 0..MaxMembers}

\* The bump types getNextVersion lists.
BumpTypes == <<<<"m", "a", "j", "o", "r">>,
               <<"m", "i", "n", "o", "r">>,
               <<"p", "a", "t", "c", "h">>,
               <<"p", "r", "e", "m", "a", "j", "o", "r">>,
               <<"p", "r", "e", "m", "i", "n", "o", "r">>,
               <<"p", "r", "e", "p", "a", "t", "c", "h">>,
               <<"p", "r", "e", "r", "e", "l", "e", "a", "s", "e">>>>
IsBumpType(s) == \E k \in 1..Len(BumpTypes) : BumpTypes[k] = s
\* The bump arguments tried: the types, and texts that are not.
BumpTexts ==
    {BumpTypes[k] : k \in 1..Len(BumpTypes)} \cup
    {<<"2", ".", "0", ".", "0">>,
     <<"1", ".", "0", ".", "0", "-", "r", "c", ".", "1">>,
     <<"1", ".", "0", ".", "0", "-", "a", "l", "p", "h", "a", ".", "b", "e", "t", "a">>,
     <<"1", ".", "0", ".", "0", "+", "b", "7">>,
     <<"0", "1", ".", "2", ".", "3">>,
     <<"1", ".", "2">>,
     <<"l", "a", "t", "e", "s", "t">>,
     <<>>}

\* ---- getLatestVersion
\* _.last of an empty array is undefined: one element that is no character.
Undefined == <<"undefined">>

\* versions.sort() sorts the strings by code unit; _.last takes the greatest.
LatestVersion(versions) ==
    IF versions = <<>> THEN Undefined
    ELSE LET range == {versions[k] : k \in 1..Len(versions)}
         IN CHOOSE v \in range : \A w \in range : ~StringLess(v, w)

\* ---- getNextVersion
\* The text is major.minor.patch and nothing more.
IsPlainVersion(s) ==
    LET a == DigitsEnd(s, 1)
        b == DigitsEnd(s, a + 1)
        c == DigitsEnd(s, b + 1)
    IN /\ s # Undefined
       /\ a > 1 /\ CharAt(s, a) = "."
       /\ b > a + 1 /\ CharAt(s, b) = "."
       /\ c > b + 1 /\ c = Len(s) + 1

PlainMajor(s) == ParseNumber(SubSeq(s, 1, DigitsEnd(s, 1) - 1))
PlainMinor(s) == ParseNumber(SubSeq(s, DigitsEnd(s, 1) + 1, DigitsEnd(s, DigitsEnd(s, 1) + 1) - 1))
PlainPatch(s) == ParseNumber(SubSeq(s, DigitsEnd(s, DigitsEnd(s, 1) + 1) + 1, Len(s)))

\* semver's inc(version, type) on a version without prerelease part, which
\* bump-regex applies to the version it finds in the text.
SemverInc(version, type) ==
    LET major == PlainMajor(version)
        minor == PlainMinor(version)
        patch == PlainPatch(version)
    IN CASE type = BumpTypes[1] -> VersionText(major + 1, 0, 0)
         [] type = BumpTypes[2] -> VersionText(major, minor + 1, 0)
         [] type = BumpTypes[3] -> VersionText(major, minor, patch + 1)
         [] type = BumpTypes[4] -> VersionText(major + 1, 0, 0) \o <<"-", "0">>
         [] type = BumpTypes[5] -> VersionText(major, minor + 1, 0) \o <<"-", "0">>
         [] OTHER -> VersionText(major, minor, patch + 1) \o <<"-", "0">>

\* bumpVersionAsync({str: `version: ${version}`, type}): the new version, or an
\* error when the text holds no version ("-" and undefined do not).
BumpVersion(version, type) ==
    IF IsPlainVersion(version) THEN Resolved(SemverInc(version, type)) ELSE Rejected("bump-regex")

\* getNextVersion(bump = 'patch'), after getLatestVersion.
GetNextVersion(versions, bump) ==
    LET version == LatestVersion(versions)
    IN IF VersionRegexpTest(bump) THEN Resolved(bump)
       ELSE IF IsBumpType(bump)
            THEN IF BumpVersion(version, bump).state = "resolved"
                 THEN BumpVersion(version, bump)
                 ELSE Rejected("InvalidVersionError")
            ELSE Rejected("InvalidVersionError")

GetNextVersionCall(versions, given, text) ==
    /\ vOp = "none"
    /\ vOp' = "getNextVersion"
    /\ vIn' = [versions |-> versions, given |-> given, bump |-> IF given THEN text ELSE BumpTypes[3]]
    /\ vOut' = GetNextVersion(versions, IF given THEN text ELSE BumpTypes[3])

\* getLatestVersion(): Promise.map over member.getVersion(), then sort and last.
GetLatestVersionCall(versions) ==
    /\ vOp = "none"
    /\ vOp' = "getLatestVersion"
    /\ vIn' = [versions |-> versions, given |-> FALSE, bump |-> <<>>]
    /\ vOut' = Resolved(LatestVersion(versions))

\* The caller has taken the settled promise.
VersionReturn ==
    /\ vOp # "none"
    /\ vOp' = "none"
    /\ vIn' = [versions |-> <<>>, given |-> FALSE, bump |-> <<>>]
    /\ vOut' = NoOut

InitVersion ==
    /\ vOp = "none"
    /\ vIn = [versions |-> <<>>, given |-> FALSE, bump |-> <<>>]
    /\ vOut = NoOut

NextVersion ==
    \/ /\ vOp = "none"
       /\ \E versions \in GroupVersions, text \in BumpTexts :
             GetNextVersionCall(versions, TRUE, text) /\ UNCHANGED NotVersion
    \/ /\ vOp = "none"
       /\ \E versions \in GroupVersions :
             GetNextVersionCall(versions, FALSE, <<>>) /\ UNCHANGED NotVersion
    \/ /\ vOp = "none"
       /\ \E versions \in GroupVersions : GetLatestVersionCall(versions) /\ UNCHANGED NotVersion
    \/ VersionReturn /\ UNCHANGED NotVersion

\* ---------------------------------------------------------------- claims
\* Semantic Versioning 2.0.0: major.minor.patch, numbers without leading zeros,
\* then -prerelease and +build, each a dot-separated list of identifiers.
IndexOfChar(s, c) ==
    IF \E k \in 1..Len(s) : s[k] = c
    THEN CHOOSE k \in 1..Len(s) : s[k] = c /\ \A j \in 1..(k - 1) : s[j] # c
    ELSE 0
RECURSIVE DotPieces(_)
DotPieces(s) ==
    LET dot == IndexOfChar(s, ".")
    IN IF dot = 0 THEN <<s>>
       ELSE <<SubSeq(s, 1, dot - 1)>> \o DotPieces(SubSeq(s, dot + 1, Len(s)))
IsNumericIdentifier(p) ==
    /\ p # <<>>
    /\ \A k \in 1..Len(p) : IsDigit(p[k])
    /\ Len(p) = 1 \/ p[1] # "0"
IsBuildIdentifier(p) ==
    p # <<>> /\ \A k \in 1..Len(p) : IsDigit(p[k]) \/ IsLower(p[k]) \/ p[k] = "-"
IsPrereleaseIdentifier(p) ==
    /\ IsBuildIdentifier(p)
    /\ (\A k \in 1..Len(p) : IsDigit(p[k])) => IsNumericIdentifier(p)
IsValidSemver(s) ==
    LET plus == IndexOfChar(s, "+")
        main == IF plus = 0 THEN s ELSE SubSeq(s, 1, plus - 1)
        dash == IndexOfChar(main, "-")
        core == DotPieces(IF dash = 0 THEN main ELSE SubSeq(main, 1, dash - 1))
        pre == DotPieces(SubSeq(main, dash + 1, Len(main)))
        build == DotPieces(SubSeq(s, plus + 1, Len(s)))
    IN /\ Len(core) = 3
       /\ \A k \in 1..Len(core) : IsNumericIdentifier(core[k])
       /\ dash # 0 => \A k \in 1..Len(pre) : IsPrereleaseIdentifier(pre[k])
       /\ plus # 0 => \A k \in 1..Len(build) : IsBuildIdentifier(build[k])

\* C12: getNextVersion(bump) returns bump itself when bump is a valid semantic
\* version, whatever the members' versions are; returns the group's latest
\* version bumped by the rule when bump is one of the seven bump types (1.2.3
\* with patch gives 1.2.4); and fails with the invalid-version error for every
\* other bump.
GetNextVersionFollowsBump ==
    vOp = "getNextVersion" =>
        LET latest == LatestVersion(vIn.versions)
        IN IF IsValidSemver(vIn.bump) THEN vOut = Resolved(vIn.bump)
           ELSE IF IsBumpType(vIn.bump)
           THEN /\ IsPlainVersion(latest) =>
                      /\ vOut.state = "resolved"
                      /\ vIn.bump = BumpTypes[3] =>
                            vOut.value = VersionText(PlainMajor(latest), PlainMinor(latest),
                                                     PlainPatch(latest) + 1)
                      /\ vIn.bump = BumpTypes[2] =>
                            vOut.value = VersionText(PlainMajor(latest), PlainMinor(latest) + 1, 0)
                      /\ vIn.bump = BumpTypes[1] =>
                            vOut.value = VersionText(PlainMajor(latest) + 1, 0, 0)
                /\ (latest = <<"1", ".", "2", ".", "3">> /\ vIn.bump = BumpTypes[3]) =>
                      vOut = Resolved(<<"1", ".", "2", ".", "4">>)
           ELSE vOut = Rejected("InvalidVersionError")

\* Semantic-version order on major.minor.patch texts: numbers compared as numbers.
SemverLessOrEqual(a, b) ==
    \/ PlainMajor(a) < PlainMajor(b)
    \/ PlainMajor(a) = PlainMajor(b) /\ PlainMinor(a) < PlainMinor(b)
    \/ PlainMajor(a) = PlainMajor(b) /\ PlainMinor(a) = PlainMinor(b) /\ PlainPatch(a) <= PlainPatch(b)

\* C28: getLatestVersion returns the greatest of the members' versions under
\* semantic-version ordering (1.10.0 is later than 1.9.0), not counting the
\* members that have no manifest ('-').
GetLatestVersionIsSemverGreatest ==
    vOp = "getLatestVersion" =>
        LET known == {v \in Range(vIn.versions) : IsPlainVersion(v)}
        IN known # {} =>
              /\ vOut.state = "resolved"
              /\ vOut.value \in known
              /\ \A v \in known : SemverLessOrEqual(v, vOut.value)

\* ======================================================================
\* One Directory handle over its lifetime: hasGit and config memoize
\* ======================================================================
\* new Directory(path): a handle on a path whose .git is a directory, a file,
\* absent, or fails to stat.
NewDirectory(gitDir) ==
    /\ hGitDir = "none"
    /\ hGitDir' = gitDir
    /\ hHasGit' = "null"
    /\ hConfig' = "null"
    /\ UNCHANGED <<hCalls, hConfigCalls, hConfigRuns, hConfigPending>>

\* hasGit(): with this._hasGit null it starts fs.stat of <path>/.git; otherwise
\* it returns Promise.resolve(() => { return this._hasGit; }), a promise that is
\* resolved with the arrow function.
HasGitCall ==
    /\ hGitDir # "none"
    /\ Len(hCalls) < MaxCalls
    /\ hCalls' = Append(hCalls, IF hHasGit = "null"
                                THEN [state |-> "probing", value |-> "none"]
                                ELSE [state |-> "settled", value |-> "function"])
    /\ UNCHANGED <<hGitDir, hHasGit, hConfig, hConfigCalls, hConfigRuns, hConfigPending>>

\* stats.isDirectory() in .then; false in .catch.
ProbeResult(gitDir) == IF gitDir = "directory" THEN "true" ELSE "false"

\* The stat of call k settles: .then or .catch sets this._hasGit and returns it.
StatSettles(k) ==
    /\ k \in 1..Len(hCalls)
    /\ hCalls[k].state = "probing"
    /\ hHasGit' = ProbeResult(hGitDir)
    /\ hCalls' = [hCalls EXCEPT ![k] = [state |-> "settled", value |-> ProbeResult(hGitDir)]]
    /\ UNCHANGED <<hGitDir, hConfig, hConfigCalls, hConfigRuns, hConfigPending>>

\* config() called n times in a row before anything settles (n = 2 is
\* getReleaseBranch: its own config() and the one in branchVerbose()): each call
\* that finds this._config unset runs 'git config --list'.
ConfigCalls(n) ==
    /\ hGitDir # "none"
    /\ hConfigCalls + n <= MaxCalls
    /\ hConfigCalls' = hConfigCalls + n
    /\ hConfigRuns' = IF hConfig = "null" THEN hConfigRuns + n ELSE hConfigRuns
    /\ hConfigPending' = IF hConfig = "null" THEN hConfigPending + n ELSE hConfigPending
    /\ UNCHANGED <<hGitDir, hHasGit, hCalls, hConfig>>

\* One 'git config --list' settles: .then stores this._config; a failure stores
\* nothing.
ConfigRunSettles(ok) ==
    /\ hConfigPending > 0
    /\ hConfigPending' = hConfigPending - 1
    /\ hConfig' = IF ok THEN "loaded" ELSE hConfig
    /\ UNCHANGED <<hGitDir, hHasGit, hCalls, hConfigCalls, hConfigRuns>>

InitHandle ==
    /\ hGitDir = "none"
    /\ hHasGit = "null"
    /\ hCalls = <<>>
    /\ hConfig = "null"
    /\ hConfigCalls = 0
    /\ hConfigRuns = 0
    /\ hConfigPending = 0

NextHandle ==
    \/ \E gitDir \in {"directory", "file", "absent", "error"} : NewDirectory(gitDir) /\ UNCHANGED NotHandle
    \/ HasGitCall /\ UNCHANGED NotHandle
    \/ \E k \in 1..MaxCalls : StatSettles(k) /\ UNCHANGED NotHandle
    \/ \E n \in 1..2 : ConfigCalls(n) /\ UNCHANGED NotHandle
    \/ \E ok \in BOOLEAN : ConfigRunSettles(ok) /\ UNCHANGED NotHandle

\* ---------------------------------------------------------------- claims
\* C13: every hasGit() call on a handle, the first and every later one, resolves
\* to a boolean, the one the probe determined: true exactly when <path>/.git is a
\* directory.
HasGitResolvesToBoolean ==
    \A k \in 1..Len(hCalls) :
        hCalls[k].state = "settled" =>
            hCalls[k].value = (IF hGitDir = "directory" THEN "true" ELSE "false")

\* C14: 'git config --list' is executed at most once over the lifetime of a
\* handle, however many config() calls are made and however they overlap.
ConfigListedAtMostOnce == hConfigRuns <= 1

\* ======================================================================
\* git flow commands over a group: Client -> Group -> Directory -> git flow
\* ======================================================================
\* The group has MaxRepos members. A member's release branches are release/<name>
\* for the names below, locally and as remote-tracking branches.
ReleaseNames == {"1", "2"}
FlowActions == {"start", "publish", "finish"}
\* The commands followed here: the release commands and feature finish.
FlowCommands ==
    [kind : {"release"}, action : FlowActions, name : ReleaseNames]
        \cup [kind : {"feature"}, action : {"finish"}, name : {"1"}]
NoCmd == [kind |-> "none", action |-> "none", name |-> "none"]
\* allowEmptyRelease as the configuration gives it, "unset" when no entry has it.
GroupSettings == [allowEmptyRelease : {"true", "false", "unset"}]

\* new Group(config): the constructor keeps config.name and config.members, and
\* no setting.
GroupConstructor(settings, members) == [members |-> members]

\* Group.<kind><Action>(name): Promise.map calls the member's method for every
\* member of this.members.
FlowMembers(group, cmd, settings, worth) == group.members

\* <kind>Finish sets process.env['GIT_MERGE_AUTOEDIT'] = 'no' before it runs git
\* flow; start and publish do not touch it.
EnvAfterCall(env, cmd, invoked) ==
    IF cmd.action = "finish" /\ invoked # {} THEN "no" ELSE env

\* A release branch somebody else published shows up among member m's
\* remote-tracking branches (git fetch), m having no release branch so far.
RemoteReleaseFetched(m, name) ==
    /\ fCmd = NoCmd
    /\ fRepo[m].local = {} /\ fRepo[m].remote = {}
    /\ fRepo' = [fRepo EXCEPT ![m].remote = {name}]
    /\ UNCHANGED <<fCmd, fSettings, fWorth, fOp, fEnv>>

\* Client.<kind><Action>: manager.getGroup, group.fetch(), then the group verb,
\* which calls every member's method at once.
FlowCommand(cmd, settings, worth) ==
    /\ fCmd = NoCmd
    /\ LET group == GroupConstructor(settings, 1..MaxRepos)
           invoked == FlowMembers(group, cmd, settings, worth)
       IN /\ fCmd' = cmd
          /\ fSettings' = settings
          /\ fWorth' = worth
          /\ fRepo' = fRepo
          /\ fOp' = [m \in 1..MaxRepos |-> IF m \in invoked THEN "running" ELSE "none"]
          /\ fEnv' = EnvAfterCall(fEnv, cmd, invoked)

\* What git flow release <action> <name> does to the member's branches when it
\* succeeds. git flow itself refuses a start while a local release branch exists,
\* and a publish or a finish of a branch that is not there.
GitFlowAccepts(repo, cmd) ==
    CASE cmd.kind # "release" -> TRUE
      [] cmd.action = "start" -> repo.local = {}
      [] OTHER -> cmd.name \in repo.local
GitFlowEffect(repo, cmd) ==
    CASE cmd.kind # "release" -> repo
      [] cmd.action = "start" -> [repo EXCEPT !.local = @ \cup {cmd.name}]
      [] cmd.action = "publish" -> [repo EXCEPT !.remote = @ \cup {cmd.name}]
      [] OTHER -> [local |-> repo.local \ {cmd.name}, remote |-> repo.remote \ {cmd.name}]

\* The git flow invocation of member m settles; .then/.catch make the record.
FlowMemberSettles(m, ok) ==
    /\ fOp[m] = "running"
    /\ ok => GitFlowAccepts(fRepo[m], fCmd)
    /\ fOp' = [fOp EXCEPT ![m] = IF ok THEN "ok" ELSE "fail"]
    /\ fRepo' = IF ok THEN [fRepo EXCEPT ![m] = GitFlowEffect(fRepo[m], fCmd)] ELSE fRepo
    /\ UNCHANGED <<fCmd, fSettings, fWorth, fEnv>>

\* Every member's record is there: the table is logged and the command is over.
FlowCommandDone ==
    /\ fCmd # NoCmd
    /\ \A m \in 1..MaxRepos : fOp[m] # "running"
    /\ fCmd' = NoCmd
    /\ fSettings' = [allowEmptyRelease |-> "unset"]
    /\ fWorth' = [m \in 1..MaxRepos |-> TRUE]
    /\ fOp' = [m \in 1..MaxRepos |-> "none"]
    /\ UNCHANGED <<fRepo, fEnv>>

InitFlow ==
    /\ fCmd = NoCmd
    /\ fSettings = [allowEmptyRelease |-> "unset"]
    /\ fWorth = [m \in 1..MaxRepos |-> TRUE]
    /\ fRepo = [m \in 1..MaxRepos |-> [local |-> {}, remote |-> {}]]
    /\ fOp = [m \in 1..MaxRepos |-> "none"]
    /\ fEnv = "unset"

NextFlow ==
    \/ \E m \in 1..MaxRepos, name \in ReleaseNames : RemoteReleaseFetched(m, name) /\ UNCHANGED NotFlow
    \/ /\ fCmd = NoCmd
       /\ \E cmd \in {c \in FlowCommands : c.action = "start"} :
             \E settings \in GroupSettings, worth \in [1..MaxRepos -> BOOLEAN] :
                FlowCommand(cmd, settings, worth) /\ UNCHANGED NotFlow
    \/ /\ fCmd = NoCmd
       /\ \E cmd \in {c \in FlowCommands : c.action # "start"} :
             FlowCommand(cmd, [allowEmptyRelease |-> "unset"], [m \in 1..MaxRepos |-> TRUE])
             /\ UNCHANGED NotFlow
    \/ \E m \in 1..MaxRepos, ok \in BOOLEAN : FlowMemberSettles(m, ok) /\ UNCHANGED NotFlow
    \/ FlowCommandDone /\ UNCHANGED NotFlow

\* ---------------------------------------------------------------- claims
\* C17: in a group whose allowEmptyRelease setting is false, release start issues
\* no release-start invocation for a member whose next release is not worth
\* creating; with the setting true or unset it starts a release on every member.
ReleaseStartSkipsEmptyReleases ==
    (fCmd.kind = "release" /\ fCmd.action = "start") =>
        \A m \in 1..MaxRepos :
            (fOp[m] = "none") <=> (fSettings.allowEmptyRelease = "false" /\ ~fWorth[m])

\* C19: every member has at most one release branch, local or remote, whatever
\* release commands were run: release start does not create a branch in a member
\* that already has an active release.
AtMostOneReleaseBranch ==
    \A m \in 1..MaxRepos : Cardinality(fRepo[m].local \cup fRepo[m].remote) <= 1

\* C20: whenever no release, hotfix or bugfix finish call is in flight,
\* GIT_MERGE_AUTOEDIT has the value it had when the process started; feature
\* finish and all other operations leave it unchanged.
MergeAutoEditRestored ==
    ~(fCmd.action = "finish" /\ fCmd.kind # "feature" /\ \E m \in 1..MaxRepos : fOp[m] = "running")
        => fEnv = "unset"

\* C21: a group release, hotfix or bugfix finish never has the finish calls of two
\* different members in flight at the same time.
FinishCallsSerialized ==
    (fCmd.action = "finish" /\ fCmd.kind # "feature") =>
        Cardinality({m \in 1..MaxRepos : fOp[m] = "running"}) <= 1

\* ======================================================================
\* Manager.findConfigFile
\* ======================================================================
\* possiblePaths, in the order the array lists them.
PossiblePaths == <<"cwd", "home", "module">>
\* What can be at a path: nothing (stat rejects), an empty file, a file with content.
DiskStates == {"absent", "empty", "file"}
Pending == [pending |-> TRUE]
\* fs.statAsync(path).catch(error => ({error})): the stats of what is there, or
\* an object that has only an error field.
StatResult(disk) ==
    CASE disk = "absent" -> [error |-> "ENOENT"]
      [] disk = "empty" -> [size |-> 0]
      [] OTHER -> [size |-> 1]
\* result.size > 0, the size of an object without one being undefined.
SizePositive(result) == "size" \in DOMAIN result /\ result.size > 0

\* Promise.map resolves to the mapper values at the index of their input.
StatResultsByCompletion(stat, order) == [k \in 1..Len(order) |-> stat[order[k]]]
StatResults(stat, order) == [i \in 1..Len(PossiblePaths) |-> stat[i]]

\* The while loop: i runs from the first index, and stops at the first result of
\* positive size; path stays '' when there is none.
RECURSIVE FirstWithSize(_, _)
FirstWithSize(results, i) ==
    IF i > Len(results) THEN ""
    ELSE IF SizePositive(results[i]) THEN PossiblePaths[i]
    ELSE FirstWithSize(results, i + 1)

FindConfigFile(files) ==
    /\ cPhase = "idle"
    /\ cPhase' = "stat"
    /\ cFiles' = files
    /\ cStat' = [i \in 1..Len(PossiblePaths) |-> Pending]
    /\ cOrder' = <<>>
    /\ cOut' = NoOut

\* One of the three stat calls completes.
ConfigStatSettles(i) ==
    /\ cPhase = "stat"
    /\ cStat[i] = Pending
    /\ cStat' = [cStat EXCEPT ![i] = StatResult(cFiles[i])]
    /\ cOrder' = Append(cOrder, i)
    /\ UNCHANGED <<cPhase, cFiles, cOut>>

\* All three are there: the .then handler picks the path or throws.
FindConfigFileSettles ==
    /\ cPhase = "stat"
    /\ Len(cOrder) = Len(PossiblePaths)
    /\ LET path == FirstWithSize(StatResults(cStat, cOrder), 1)
       IN cOut' = IF path = "" THEN Rejected("NoConfigFileError") ELSE Resolved(path)
    /\ cPhase' = "done"
    /\ UNCHANGED <<cFiles, cStat, cOrder>>

FindConfigFileReturn ==
    /\ cPhase = "done"
    /\ cPhase' = "idle"
    /\ UNCHANGED <<cFiles, cStat, cOrder, cOut>>

InitFind ==
    /\ cPhase = "idle"
    /\ cFiles = [i \in 1..Len(PossiblePaths) |-> "absent"]
    /\ cStat = [i \in 1..Len(PossiblePaths) |-> Pending]
    /\ cOrder = <<>>
    /\ cOut = NoOut

NextFind ==
    \/ /\ cPhase = "idle"
       /\ \E files \in [1..Len(PossiblePaths) -> DiskStates] :
             FindConfigFile(files) /\ UNCHANGED NotFind
    \/ \E i \in 1..Len(PossiblePaths) : ConfigStatSettles(i) /\ UNCHANGED NotFind
    \/ FindConfigFileSettles /\ UNCHANGED NotFind
    \/ FindConfigFileReturn /\ UNCHANGED NotFind

\* ---------------------------------------------------------------- claims
\* The paths that qualify: a file of non-zero size is there.
Qualifying == {i \in 1..Len(PossiblePaths) : cFiles[i] = "file"}

\* C22: findConfigFile returns the first location, in the order current working
\* directory, home directory, module directory, at which the file exists with
\* non-zero size, whatever the order the stat calls completed in, and fails with
\* NoConfigFileError exactly when none qualifies.
FindConfigFileFollowsPriority ==
    cPhase = "done" =>
        IF Qualifying = {} THEN cOut = Rejected("NoConfigFileError")
        ELSE \E i \in Qualifying :
                /\ \A j \in Qualifying : i <= j
                /\ cOut = Resolved(PossiblePaths[i])

\* The home file was found although the stat of the module path, which also has
\* a file, completed first and the stat of the empty cwd file completed last.
FindConfigFileOutOfOrderWitness ==
    /\ cPhase = "done"
    /\ cFiles = <<"empty", "file", "file">>
    /\ cOrder = <<3, 2, 1>>
    /\ cOut = Resolved("home")

\* ======================================================================
\* Manager.getGroup / Manager.initActiveGroup
\* ======================================================================
MaxGetGroups == 2
\* An argument that was not passed.
NotGiven == "undefined"
\* The configuration file: two groups that share a project, three projects.
ConfigGroups == [g1 |-> <<"p1", "p2">>, g2 |-> <<"p2", "p3">>]
ConfigProjects == <<"p1", "p2", "p3">>
\* The cwd is the project p2 when it is a repository, and otherwise a plain
\* directory with two subdirectories and a file.
CwdName(env) == IF env.cwdGit THEN "p2" ELSE "work"
CwdEntries == <<[name |-> "work/a", isDirectory |-> TRUE],
                [name |-> "work/b", isDirectory |-> TRUE],
                [name |-> "work/notes.txt", isDirectory |-> FALSE]>>
\* The directories that have a .git directory.
WithGit(env) == {"p1", "p2", "work/a"} \cup (IF env.cwdGit THEN {"cwd"} ELSE {})
Environments == [cwdGit : BOOLEAN, defaultToProject : BOOLEAN]
\* The arguments getGroup is called with.
GetGroupArgs ==
    {[groupName |-> g, projectName |-> p] :
        <<g, p>> \in {<<NotGiven, NotGiven>>, <<NotGiven, "p1">>, <<NotGiven, "p9">>,
                      <<"g1", NotGiven>>, <<"g9", NotGiven>>, <<"g1", "p1">>}}

NoGroup == [by |-> 0, members |-> <<>>, loaded |-> FALSE]
Thrown(e) == [error |-> e]
IsMember(x, s) == \E k \in 1..Len(s) : s[k] = x

\* new Group({name, members}): the members become Directory objects, git null.
NewGroup(members) == [members |-> members]

\* getGroupByName: throws when groups[groupName] is falsy; the members are the
\* projects picked by the group's member names.
GetGroupByNameKeepsGoing(groupName) ==
    NewGroup(IF groupName \in DOMAIN ConfigGroups THEN ConfigGroups[groupName] ELSE <<>>)
GetGroupByName(groupName) ==
    IF groupName \notin DOMAIN ConfigGroups THEN Thrown("GroupMissingError")
    ELSE NewGroup(SelectSeq(ConfigGroups[groupName], LAMBDA p : IsMember(p, ConfigProjects)))

\* getSingleProjectGroup: throws when projects[projectName] is falsy.
GetSingleProjectGroup(projectName) ==
    IF ~IsMember(projectName, ConfigProjects) THEN Thrown("ProjectMissingError")
    ELSE NewGroup(<<projectName>>)

\* getCwdParentGroup: the cwd alone under defaultToProject; otherwise the keys
\* collected from the members of every group that lists the cwd's name, each
\* key once, picked from the projects.
GetCwdParentGroup(env) ==
    IF env.defaultToProject THEN NewGroup(<<CwdName(env)>>)
    ELSE LET parentGroups == {g \in DOMAIN ConfigGroups : IsMember(CwdName(env), ConfigGroups[g])}
             memberNames == UNION {Range(ConfigGroups[g]) : g \in parentGroups}
         IN NewGroup(SelectSeq(ConfigProjects, LAMBDA p : p \in memberNames))

\* getCwdChildrenGroup: the entries of the cwd that are directories.
GetCwdChildrenGroup ==
    LET dirs == SelectSeq(CwdEntries, LAMBDA e : e.isDirectory)
    IN NewGroup([k \in 1..Len(dirs) |-> dirs[k].name])

\* getCwdGroup: hasGit ? getCwdParentGroup() : getCwdChildrenGroup(), hasGit being
\* what this.cwd.hasGit() resolved to: a boolean, or the function the memoized
\* branch resolves to, which is truthy.
GetCwdGroup(env, hasGit) ==
    IF hasGit \in {"true", "function"} THEN GetCwdParentGroup(env) ELSE GetCwdChildrenGroup

\* The first .then of initActiveGroup, once this.cwd.hasGit() is known.
SelectGroup(args, env, hasGit) ==
    IF args.groupName = NotGiven /\ args.projectName = NotGiven THEN GetCwdGroup(env, hasGit)
    ELSE IF args.groupName = NotGiven THEN GetSingleProjectGroup(args.projectName)
    ELSE GetGroupByName(args.groupName)

\* Promise.reduce over the members, keeping those whose hasGit() is true.
MembersWithGit(members, env) == SelectSeq(members, LAMBDA d : d \in WithGit(env))

\* The environment of the Manager there is.
TheEnv == CHOOSE env \in mEnv : TRUE

\* A Manager is constructed: config null, activeGroup null, cwd a fresh Directory.
NewManager(env) ==
    /\ mEnv = {}
    /\ mEnv' = {env}
    /\ UNCHANGED <<mCwdHasGit, mActive, mCalls>>

\* getGroup(groupName, projectName): with an active group it resolves to that
\* object at once; otherwise initActiveGroup starts.
GetGroup(args) ==
    /\ mEnv # {}
    /\ Len(mCalls) < MaxGetGroups
    /\ mCalls' = Append(mCalls,
          IF mActive # NoGroup
          THEN [args |-> args, pc |-> "done", resolving |-> FALSE, hasGit |-> "none",
                selected |-> NoGroup.members,
                out |-> Resolved([members |-> mActive.members, loaded |-> mActive.loaded])]
          ELSE [args |-> args, pc |-> "start", resolving |-> TRUE, hasGit |-> "none",
                selected |-> NoGroup.members, out |-> NoOut])
    /\ UNCHANGED <<mEnv, mCwdHasGit, mActive>>

\* The first .then of call k runs. With neither argument it calls
\* this.cwd.hasGit(), which stats <cwd>/.git when nothing is memoized and
\* otherwise resolves to the memo function.
InitActiveGroupStarts(k) ==
    /\ k \in 1..Len(mCalls)
    /\ mCalls[k].pc = "start"
    /\ mCalls' = [mCalls EXCEPT ![k] =
          IF mCalls[k].args.groupName = NotGiven /\ mCalls[k].args.projectName = NotGiven
          THEN IF mCwdHasGit = "null" THEN [@ EXCEPT !.pc = "stat"]
               ELSE [@ EXCEPT !.pc = "select", !.hasGit = "function"]
          ELSE [@ EXCEPT !.pc = "select"]]
    /\ UNCHANGED <<mEnv, mCwdHasGit, mActive>>

\* The stat of <cwd>/.git of call k settles and is memoized.
CwdStatSettles(k) ==
    /\ k \in 1..Len(mCalls)
    /\ mCalls[k].pc = "stat"
    /\ LET hasGit == IF TheEnv.cwdGit THEN "true" ELSE "false"
       IN /\ mCwdHasGit' = hasGit
          /\ mCalls' = [mCalls EXCEPT ![k] = [@ EXCEPT !.pc = "select", !.hasGit = hasGit]]
    /\ UNCHANGED <<mEnv, mActive>>

\* The configuration is there: the group is built or the error thrown; the
\* second .then assigns the group to this.activeGroup and starts the filter.
GroupSelected(k) ==
    /\ k \in 1..Len(mCalls)
    /\ mCalls[k].pc = "select"
    /\ LET group == SelectGroup(mCalls[k].args, TheEnv, mCalls[k].hasGit)
       IN IF "error" \in DOMAIN group
          THEN /\ mCalls' = [mCalls EXCEPT ![k] = [@ EXCEPT !.pc = "done", !.out = Rejected(group.error)]]
               /\ UNCHANGED mActive
          ELSE /\ mCalls' = [mCalls EXCEPT ![k] = [@ EXCEPT !.pc = "filter", !.selected = group.members]]
               /\ mActive' = [by |-> k, members |-> group.members, loaded |-> FALSE]
    /\ UNCHANGED <<mEnv, mCwdHasGit>>

\* The hasGit() of every member of call k's group has settled: the third .then
\* assigns the kept members to this.activeGroup.members, loads git on each, and
\* the call resolves to this.activeGroup.
MembersFiltered(k) ==
    /\ k \in 1..Len(mCalls)
    /\ mCalls[k].pc = "filter"
    /\ LET members == MembersWithGit(mCalls[k].selected, TheEnv)
       IN /\ mActive' = [mActive EXCEPT !.members = members, !.loaded = TRUE]
          /\ mCalls' = [mCalls EXCEPT ![k] =
                [@ EXCEPT !.pc = "done", !.out = Resolved([members |-> members, loaded |-> TRUE])]]
    /\ UNCHANGED <<mEnv, mCwdHasGit>>

InitManager ==
    /\ mEnv = {}
    /\ mCwdHasGit = "null"
    /\ mActive = NoGroup
    /\ mCalls = <<>>

NextManager ==
    \/ \E env \in Environments : NewManager(env) /\ UNCHANGED NotManager
    \/ /\ mEnv # {} /\ Len(mCalls) < MaxGetGroups
       /\ \E args \in GetGroupArgs : GetGroup(args) /\ UNCHANGED NotManager
    \/ \E k \in 1..MaxGetGroups : InitActiveGroupStarts(k) /\ UNCHANGED NotManager
    \/ \E k \in 1..MaxGetGroups : CwdStatSettles(k) /\ UNCHANGED NotManager
    \/ \E k \in 1..MaxGetGroups : GroupSelected(k) /\ UNCHANGED NotManager
    \/ \E k \in 1..MaxGetGroups : MembersFiltered(k) /\ UNCHANGED NotManager

\* ---------------------------------------------------------------- claims
\* The calls that went through initActiveGroup and are past the selection.
Selected(k) == mCalls[k].resolving /\ mCalls[k].pc \in {"filter", "done"}

InitActiveGroupSelection ==
    \A k \in 1..Len(mCalls) :
        (Selected(k) /\ mCalls[k].out.state # "rejected") =>
            LET args == mCalls[k].args
                selected == mCalls[k].selected
            IN IF args.groupName # NotGiven THEN selected = ConfigGroups[args.groupName]
               ELSE IF args.projectName # NotGiven THEN selected = <<args.projectName>>
               ELSE IF ~TheEnv.cwdGit
                    THEN /\ Range(selected) = {e.name : e \in {x \in Range(CwdEntries) : x.isDirectory}}
                         /\ Len(selected) = Cardinality(Range(selected))
               ELSE TheEnv.defaultToProject
                    \/ /\ Range(selected) =
                            UNION {Range(ConfigGroups[g]) :
                                     g \in {h \in DOMAIN ConfigGroups : CwdName(TheEnv) \in Range(ConfigGroups[h])}}
                       /\ Len(selected) = Cardinality(Range(selected))

\* C26: every group a getGroup call resolves to, including a call made while an
\* earlier one is still resolving, has git loaded on its members and contains
\* only members that have a .git directory.
GetGroupResolvesFilteredGroup ==
    \A k \in 1..Len(mCalls) :
        mCalls[k].out.state = "resolved" =>
            /\ mCalls[k].out.value.loaded
            /\ \A d \in Range(mCalls[k].out.value.members) : d \in WithGit(TheEnv)

\* ======================================================================
\* Directory.pushAllDefaults
\* ======================================================================
\* _.values(config.gitflow.branch): the default branches, master first.
DefaultBranches == <<"master", "develop">>
RemoteNames == {"origin", "upstream"}
Checkout(b) == [cmd |-> "checkout", branch |-> b, remote |-> "none"]
Push(b, remote) == [cmd |-> "push", branch |-> b, remote |-> remote]
PushTags == [cmd |-> "pushTags", branch |-> "none", remote |-> "origin"]

\* Promise.map(branches, ...) calls the mapper for every branch before any of
\* the commands has run: a checkout per branch goes to simple-git, which runs
\* the commands it is handed one at a time, in the order it got them.
CheckoutsIssued(branches) == [k \in 1..Len(branches) |-> Checkout(branches[k])]

PushAllDefaultsCall(remotes) ==
    /\ uPhase = "idle"
    /\ uPhase' = "running"
    /\ uRemotes' = remotes
    /\ uQueue' = CheckoutsIssued(DefaultBranches)
    /\ uChain' = [b \in Range(DefaultBranches) |-> "checkout"]
    /\ uLog' = <<>>
    /\ uOut' = NoOut

\* The chain of branch b after its command ran.
ChainAfter(chain, command, ok) ==
    IF command.cmd = "pushTags" THEN chain
    ELSE [chain EXCEPT ![command.branch] =
            IF ~ok THEN "failed" ELSE IF command.cmd = "checkout" THEN "push" ELSE "done"]

\* What the handlers that run when the command settles hand to simple-git: the
\* push of a branch after its checkout; pushTags('origin') once the mapper of
\* every branch has resolved.
IssuedAfter(chain, command, ok) ==
    IF ~ok \/ command.cmd = "pushTags" THEN <<>>
    ELSE IF command.cmd = "checkout" THEN <<Push(command.branch, uRemotes[command.branch])>>
    ELSE IF \A b \in Range(DefaultBranches) : ChainAfter(chain, command, ok)[b] = "done"
         THEN <<PushTags>>
    ELSE <<>>

\* The promise of the call: rejected by the first command that fails, resolved
\* when pushTags succeeded.
OutAfter(out, command, ok) ==
    IF out # NoOut THEN out
    ELSE IF ~ok THEN Rejected(command)
    ELSE IF command.cmd = "pushTags" THEN Resolved("pushed")
    ELSE out

\* simple-git runs the oldest command it holds; it succeeds or fails.
GitRuns(ok) ==
    /\ uPhase = "running"
    /\ uQueue # <<>>
    /\ LET command == Head(uQueue)
       IN /\ uLog' = Append(uLog, [command |-> command, ok |-> ok])
          /\ uChain' = ChainAfter(uChain, command, ok)
          /\ uQueue' = Tail(uQueue) \o IssuedAfter(uChain, command, ok)
          /\ uOut' = OutAfter(uOut, command, ok)
    /\ UNCHANGED <<uPhase, uRemotes>>

\* Nothing is left to run and the promise has settled.
PushAllDefaultsReturn ==
    /\ uPhase = "running"
    /\ uQueue = <<>>
    /\ uOut # NoOut
    /\ uPhase' = "idle"
    /\ UNCHANGED <<uRemotes, uChain, uQueue, uLog, uOut>>

InitPush ==
    /\ uPhase = "idle"
    /\ uRemotes = [b \in Range(DefaultBranches) |-> "origin"]
    /\ uChain = [b \in Range(DefaultBranches) |-> "none"]
    /\ uQueue = <<>>
    /\ uLog = <<>>
    /\ uOut = NoOut

NextPush ==
    \/ /\ uPhase = "idle"
       /\ \E remotes \in [Range(DefaultBranches) -> RemoteNames] :
             PushAllDefaultsCall(remotes) /\ UNCHANGED NotPush
    \/ \E ok \in BOOLEAN : GitRuns(ok) /\ UNCHANGED NotPush
    \/ PushAllDefaultsReturn /\ UNCHANGED NotPush

\* ---------------------------------------------------------------- claims
\* C27: pushAllDefaults runs its steps strictly one after another: the checkout
\* of a default branch is followed by its push before the other branch is
\* checked out, tags are pushed only after both branch pushes succeeded, and a
\* failing step prevents all later steps.
PushAllDefaultsStrictlySequential ==
    /\ \A i \in 1..Len(uLog) : \A j \in (i + 1)..Len(uLog) :
          (uLog[i].command.cmd = "checkout" /\ uLog[i].ok /\ uLog[j].command.cmd = "checkout")
             => \E k \in (i + 1)..(j - 1) :
                   uLog[k].command.cmd = "push" /\ uLog[k].command.branch = uLog[i].command.branch
    /\ \A i \in 1..Len(uLog) :
          uLog[i].command.cmd = "pushTags" =>
             \A b \in Range(DefaultBranches) :
                \E k \in 1..(i - 1) :
                   uLog[k].command.cmd = "push" /\ uLog[k].command.branch = b /\ uLog[k].ok
    /\ \A i \in 1..Len(uLog) : ~uLog[i].ok => i = Len(uLog)

Init == InitGroup /\ InitDir /\ InitPull /\ InitVersion /\ InitHandle /\ InitFlow /\ InitFind /\ InitManager /\ InitPush

SpecGroup == Init /\ [][NextGroup]_vars
SpecDir == Init /\ [][NextDir]_vars
SpecPull == Init /\ [][NextPull]_vars
SpecVersion == Init /\ [][NextVersion]_vars
SpecHandle == Init /\ [][NextHandle]_vars
SpecFlow == Init /\ [][NextFlow]_vars
SpecFind == Init /\ [][NextFind]_vars
SpecManager == Init /\ [][NextManager]_vars
SpecPush == Init /\ [][NextPush]_vars
====
